---- MODULE Spec2Model ----
(***************************************************************************)
(* Model of the HSK1 content pipeline (content/hsk1):                      *)
(*   - the Segmenter, in its two implementations                           *)
(*       structure_chapters.structure_into_chapters   (variables s_...)    *)
(*       correct_chapters.extract_chapters_from_ocr   (variables c_...)    *)
(*   - the Correction Orchestrator                                         *)
(*       correct_chapters.process_all_chapters_parallel / main             *)
(*   - the vocabulary extraction                                           *)
(*       extract_vocabulary.extract_all_chapters / main  (variables v_...) *)
(*   - the atom extraction                                                 *)
(*       extract_atoms.process_all_chapters / main       (variables a_...) *)
(*   - the line parser                                                     *)
(*       extract_vocabulary.parse_vocab_line             (variables p_...) *)
(*       extract_vocabulary.normalize_pos                (variables n_...) *)
(*       extract_vocabulary.extract_vocab_from_chapter   (variables e_...) *)
(* A page text is a sequence of one-character strings.                     *)
(***************************************************************************)
EXTENDS Integers, Sequences, FiniteSets, TLC

VARIABLES
    pages,              \* the page texts handed to both Segmenters
    s_i,                \* structure_into_chapters: index of the next page
    s_current_lesson,
    s_current_content,
    s_chapters,
    s_done,             \* structure_into_chapters has returned
    c_i,                \* extract_chapters_from_ocr: index of the next page
    c_current_lesson,
    c_current_content,
    c_chapters,
    c_done,             \* extract_chapters_from_ocr has returned
    chapters,           \* process_all_chapters_parallel: lesson numbers, in dict order
    max_workers,
    credential,         \* the corrector credential is present in the environment
    pc,                 \* position of main / process_all_chapters_parallel
    submitted,          \* number of entries of chapters already submitted
    queue,              \* work items of the executor not yet taken by a worker
    task,               \* state of the future of each lesson
    invoked,            \* calls of client.messages.create per lesson
    results,            \* the dict results
    failed,             \* lessons reported with the failure line
    files,              \* corrected_chapters/chapter_NN.txt, per lesson
    writes,             \* writes to chapter_NN.txt per lesson
    combined,           \* hsk1_corrected.txt
    chapter_files,      \* extract_vocabulary: entries parsed from each chapter file
    v_pc,               \* position of extract_vocabulary.main / extract_all_chapters
    v_i,                \* extract_all_chapters: loop variable i
    v_k,                \* index of the next entry of chapter_vocab
    all_vocab,
    v_seen_words,
    v_skipped,          \* the "Skipping duplicate" lines of extract_all_chapters
    hsk1_vocabulary,    \* hsk1_vocabulary.json
    existing_hsk_words, \* extract_atoms: the words loaded from hsk1_vocabulary.json
    replies,            \* atoms the external call answers, per chapter with content
    a_pc,               \* position of extract_atoms.main / process_all_chapters
    a_task,             \* state of the future of each chapter
    a_returned,         \* value returned by extract_atoms_with_claude, per chapter
    chapter_results,    \* the dict chapter_results, in insertion order
    a_ci,               \* index of the chapter being combined
    a_k,                \* index of the next atom of that chapter
    all_atoms,
    a_seen_words,
    a_skipped,          \* the "Skipping duplicate" lines of process_all_chapters
    hsk1_atoms,         \* hsk1_atoms.json
    p_line,             \* parse_vocab_line: the argument line
    p_pc,               \* position of parse_vocab_line
    p_entry,            \* the value parse_vocab_line returns
    n_pos,              \* normalize_pos: the argument pos
    n_pc,               \* position of normalize_pos
    n_category,         \* the value normalize_pos returns
    e_lines,            \* extract_vocab_from_chapter: the list lines
    e_chapter_num,
    e_i,                \* index of the next line
    e_vocab,            \* the list vocab
    e_pc                \* position of extract_vocab_from_chapter

segVars == <<pages, s_i, s_current_lesson, s_current_content, s_chapters, s_done,
             c_i, c_current_lesson, c_current_content, c_chapters, c_done>>

orchVars == <<chapters, max_workers, credential, pc, submitted, queue, task,
              invoked, results, failed, files, writes, combined>>

vocabVars == <<chapter_files, v_pc, v_i, v_k, all_vocab, v_seen_words, v_skipped,
               hsk1_vocabulary>>

atomVars == <<existing_hsk_words, replies, a_pc, a_task, a_returned, chapter_results,
              a_ci, a_k, all_atoms, a_seen_words, a_skipped, hsk1_atoms>>

dedupVars == <<vocabVars, atomVars>>

parseVars == <<p_line, p_pc, p_entry>>

normVars == <<n_pos, n_pc, n_category>>

scanVars == <<e_lines, e_chapter_num, e_i, e_vocab, e_pc>>

vars == <<segVars, orchVars, dedupVars, parseVars, normVars, scanVars>>

----------------------------------------------------------------------------
(* Bounds of the model *)

MaxPages == 3

\* lessons dispatched to the corrector are drawn from 1..MaxChapters
MaxChapters == 3

\* max_workers is drawn from 1..MaxParallel and the default of main
MaxParallel == 2

----------------------------------------------------------------------------
(* Text primitives *)

Digits == {"0", "1", "2", "3", "4", "5", "6", "7", "8", "9"}

DigitValue(c) ==
    CASE c = "0" -> 0 [] c = "1" -> 1 [] c = "2" -> 2 [] c = "3" -> 3
      [] c = "4" -> 4 [] c = "5" -> 5 [] c = "6" -> 6 [] c = "7" -> 7
      [] c = "8" -> 8 [] c = "9" -> 9

Whitespace == {" ", "\n", "\t"}

RECURSIVE LStrip(_)
LStrip(s) ==
    IF s # <<>> /\ Head(s) \in Whitespace THEN LStrip(Tail(s)) ELSE s

RECURSIVE RStrip(_)
RStrip(s) ==
    IF s # <<>> /\ s[Len(s)] \in Whitespace
    THEN RStrip(SubSeq(s, 1, Len(s) - 1))
    ELSE s

\* str.strip()
Strip(s) == RStrip(LStrip(s))

\* The unit separator '\n\n'
Separator == <<"\n", "\n">>

\* '\n\n'.join(content)
RECURSIVE Join(_)
Join(content) ==
    IF content = <<>> THEN <<>>
    ELSE IF Len(content) = 1 THEN content[1]
    ELSE content[1] \o Separator \o Join(Tail(content))

----------------------------------------------------------------------------
(* Marker detection *)

\* Python's None
None == -1

\* The largest accepted lesson number
MaxLesson == 15

\* The pattern (\d{2})-\d+ matches at position i of text
MarkerAt(text, i) ==
    /\ i + 3 <= Len(text)
    /\ text[i] \in Digits
    /\ text[i + 1] \in Digits
    /\ text[i + 2] = "-"
    /\ text[i + 3] \in Digits

\* re.search: the position of the leftmost match, 0 when there is none
MarkerSearchFirst(text) ==
    IF \E i \in 1..Len(text) : MarkerAt(text, i)
    THEN CHOOSE i \in 1..Len(text) :
            MarkerAt(text, i) /\ \A j \in 1..(i - 1) : ~MarkerAt(text, j)
    ELSE 0

\* The position of the rightmost match, 0 when there is none
MarkerSearchLast(text) ==
    IF \E i \in 1..Len(text) : MarkerAt(text, i)
    THEN CHOOSE i \in 1..Len(text) :
            MarkerAt(text, i) /\ \A j \in (i + 1)..Len(text) : ~MarkerAt(text, j)
    ELSE 0

MarkerSearch(text) == MarkerSearchFirst(text)

\* int(match.group(1)) of the match at position i
GroupNumber(text, i) == 10 * DigitValue(text[i]) + DigitValue(text[i + 1])

\* structure_chapters.extract_lesson_number
extract_lesson_number(text) ==
    IF MarkerSearch(text) = 0 THEN None
    ELSE GroupNumber(text, MarkerSearch(text))

----------------------------------------------------------------------------
(* The page texts the model draws from *)

PageTexts ==
    { <<"0", "1", "-", "1", "a">>,                      \* "01-1a"
      <<" ", "0", "1", "-", "2", "\n">>,                \* " 01-2\n"
      <<"0", "2", "-", "1">>,                           \* "02-1"
      <<"1", "5", "-", "3">>,                           \* "15-3"
      <<"1", "6", "-", "1">>,                           \* "16-1"
      <<"0", "0", "-", "2">>,                           \* "00-2"
      <<"3", "9", "-", "1", " ", "0", "2", "-", "1">>,  \* "39-1 02-1"
      <<"0", "0", "-", "1", " ", "0", "2", "-", "1">>,  \* "00-1 02-1"
      <<"b">>,                                          \* "b"
      <<"x", "0", "1">>,                                \* "x01"
      <<"-", "1", "y">>,                                \* "-1y"
      <<" ", "\n">> }                                   \* " \n"

RECURSIVE SeqsUpTo(_, _)
SeqsUpTo(S, n) ==
    IF n = 0 THEN {<<>>}
    ELSE LET shorter == SeqsUpTo(S, n - 1)
         IN  shorter \cup {Append(q, x) : q \in {r \in shorter : Len(r) = n - 1}, x \in S}

\* dict assignment chapters[key] = text
DictSet(dict, key, text) ==
    [k \in DOMAIN dict \cup {key} |-> IF k = key THEN text ELSE dict[k]]

EmptyDict == [k \in {} |-> <<>>]

----------------------------------------------------------------------------
(* structure_chapters.structure_into_chapters *)

StructureStartsLessonUnbounded(lesson_num, current_lesson) ==
    /\ lesson_num # None
    /\ lesson_num # 0
    /\ lesson_num # current_lesson

\* the test of line 56
StructureStartsLesson(lesson_num, current_lesson) ==
    /\ lesson_num # None
    /\ lesson_num # 0
    /\ lesson_num <= MaxLesson
    /\ lesson_num # current_lesson

FlushUnguarded(dict, current_lesson, current_content) ==
    IF current_content # <<>>
    THEN DictSet(dict, current_lesson, Join(current_content))
    ELSE dict

FlushMerging(dict, current_lesson, current_content) ==
    IF current_content # <<>> /\ current_lesson > 0
    THEN IF current_lesson \in DOMAIN dict
           THEN DictSet(dict, current_lesson,
                        dict[current_lesson] \o Separator \o Join(current_content))
         ELSE DictSet(dict, current_lesson, Join(current_content))
    ELSE dict

\* the guarded save of lines 58-59 and 70-71 (82-83 in correct_chapters)
Flush(dict, current_lesson, current_content) ==
    IF current_content # <<>> /\ current_lesson > 0
    THEN DictSet(dict, current_lesson, Join(current_content))
    ELSE dict

\* lines 66-67
AppendPage(current_content, page_text) ==
    IF Strip(page_text) # <<>>
    THEN Append(current_content, Strip(page_text))
    ELSE current_content

StructureInit ==
    /\ s_i = 1
    /\ s_current_lesson = 0
    /\ s_current_content = <<>>
    /\ s_chapters = EmptyDict
    /\ s_done = FALSE

\* one iteration of the loop of lines 52-67
StructurePage ==
    /\ ~s_done
    /\ s_i <= Len(pages)
    /\ LET page_text == pages[s_i]
           lesson_num == extract_lesson_number(page_text)
       IN  IF StructureStartsLesson(lesson_num, s_current_lesson)
           THEN /\ s_chapters' = Flush(s_chapters, s_current_lesson, s_current_content)
                /\ s_current_lesson' = lesson_num
                /\ s_current_content' = <<Strip(page_text)>>
           ELSE /\ s_current_content' = AppendPage(s_current_content, page_text)
                /\ UNCHANGED <<s_chapters, s_current_lesson>>
    /\ s_i' = s_i + 1
    /\ UNCHANGED <<pages, s_done>>
    /\ UNCHANGED <<c_i, c_current_lesson, c_current_content, c_chapters, c_done>>
    /\ UNCHANGED <<orchVars, dedupVars, parseVars, normVars, scanVars>>

\* lines 69-73: save the last lesson and return
StructureReturn ==
    /\ ~s_done
    /\ s_i > Len(pages)
    /\ s_chapters' = Flush(s_chapters, s_current_lesson, s_current_content)
    /\ s_done' = TRUE
    /\ UNCHANGED <<pages, s_i, s_current_lesson, s_current_content>>
    /\ UNCHANGED <<c_i, c_current_lesson, c_current_content, c_chapters, c_done>>
    /\ UNCHANGED <<orchVars, dedupVars, parseVars, normVars, scanVars>>

----------------------------------------------------------------------------
(* correct_chapters.extract_chapters_from_ocr *)

\* the tests of lines 68 and 70
CorrectStartsLesson(lesson_num, current_lesson) ==
    /\ lesson_num # None
    /\ lesson_num <= MaxLesson
    /\ lesson_num # current_lesson

CorrectInit ==
    /\ c_i = 1
    /\ c_current_lesson = 0
    /\ c_current_content = <<>>
    /\ c_chapters = EmptyDict
    /\ c_done = FALSE

\* one iteration of the loop of lines 65-80
CorrectPage ==
    /\ ~c_done
    /\ c_i <= Len(pages)
    /\ LET page_text == pages[c_i]
           lesson_num == extract_lesson_number(page_text)
       IN  IF CorrectStartsLesson(lesson_num, c_current_lesson)
           THEN /\ c_chapters' = Flush(c_chapters, c_current_lesson, c_current_content)
                /\ c_current_lesson' = lesson_num
                /\ c_current_content' = <<Strip(page_text)>>
           ELSE /\ c_current_content' = AppendPage(c_current_content, page_text)
                /\ UNCHANGED <<c_chapters, c_current_lesson>>
    /\ c_i' = c_i + 1
    /\ UNCHANGED <<pages, c_done>>
    /\ UNCHANGED <<s_i, s_current_lesson, s_current_content, s_chapters, s_done>>
    /\ UNCHANGED <<orchVars, dedupVars, parseVars, normVars, scanVars>>

\* lines 82-85: save the last lesson and return
CorrectReturn ==
    /\ ~c_done
    /\ c_i > Len(pages)
    /\ c_chapters' = Flush(c_chapters, c_current_lesson, c_current_content)
    /\ c_done' = TRUE
    /\ UNCHANGED <<pages, c_i, c_current_lesson, c_current_content>>
    /\ UNCHANGED <<s_i, s_current_lesson, s_current_content, s_chapters, s_done>>
    /\ UNCHANGED <<orchVars, dedupVars, parseVars, normVars, scanVars>>

----------------------------------------------------------------------------
(* correct_chapters.process_all_chapters_parallel and main *)

\* max_workers=5 of main, the default of process_all_chapters_parallel
DefaultMaxWorkers == 5

Lessons == 1..MaxChapters

\* the keys of chapters
Dispatched == {chapters[k] : k \in 1..Len(chapters)}

\* sequences of distinct lessons: the keys of a lesson map in dict order
OrderedKeys == {q \in SeqsUpTo(Lessons, MaxChapters) :
                   \A a, b \in 1..Len(q) : a # b => q[a] # q[b]}

\* the text a chapter_NN.txt holds from an earlier run of main
OldText(num) == <<"earlier run", num>>

\* response.content[0].text of the call for lesson num in this run
CorrectedText(num) == <<"corrected", num>>

\* futures whose call is in flight: each occupies one worker thread
InFlight == {L \in Dispatched : task[L] \in {"running", "hung"}}

SlotAlwaysFree(in_flight) == TRUE

\* a worker thread of the pool is free to take a work item
SlotFree(in_flight) == Cardinality(in_flight) < max_workers

QueueDroppedAfterRaise(q) == <<>>

\* the work queue after a call raised: the other work items stay queued
QueueAfterRaise(q) == q

\* results after the loop body handled the future of lesson num (lines 173-175)
ResultsAfterDrop(res, num, outcome) == res

ResultsAfter(res, num, outcome) ==
    IF outcome = "done_ok" THEN DictSet(res, num, CorrectedText(num)) ELSE res

FilesAfterNoWrite(fs, num, outcome) == fs

\* the files after the loop body handled the future of lesson num (lines 178-180)
FilesAfter(fs, num, outcome) ==
    IF outcome = "done_ok" THEN DictSet(fs, num, CorrectedText(num)) ELSE fs

WritesAfterTwice(w, num, outcome) ==
    IF outcome = "done_ok" THEN [w EXCEPT ![num] = @ + 2] ELSE w

\* the number of times each chapter file was opened for writing (line 179)
WritesAfter(w, num, outcome) ==
    IF outcome = "done_ok" THEN [w EXCEPT ![num] = @ + 1] ELSE w

\* a JSON output file that has not been written
NotWritten == [exists |-> FALSE, vocab |-> <<>>]

\* extract_vocabulary at rest
VocabIdle ==
    /\ chapter_files = EmptyDict
    /\ v_pc = "idle"
    /\ v_i = 1
    /\ v_k = 1
    /\ all_vocab = <<>>
    /\ v_seen_words = {}
    /\ v_skipped = <<>>
    /\ hsk1_vocabulary = NotWritten

\* extract_atoms at rest
AtomIdle ==
    /\ existing_hsk_words = {}
    /\ replies = EmptyDict
    /\ a_pc = "idle"
    /\ a_task = EmptyDict
    /\ a_returned = EmptyDict
    /\ chapter_results = <<>>
    /\ a_ci = 1
    /\ a_k = 1
    /\ all_atoms = <<>>
    /\ a_seen_words = {}
    /\ a_skipped = <<>>
    /\ hsk1_atoms = NotWritten

\* the value None of parse_vocab_line
NoEntry == [word |-> <<>>, pinyin |-> <<>>, part_of_speech |-> "none", meaning |-> <<>>]

\* parse_vocab_line at rest
ParseIdle ==
    /\ p_line = <<>>
    /\ p_pc = "idle"
    /\ p_entry = NoEntry

\* normalize_pos at rest
NormIdle ==
    /\ n_pos = <<>>
    /\ n_pc = "idle"
    /\ n_category = "none"

\* extract_vocab_from_chapter at rest
ScanIdle ==
    /\ e_lines = <<>>
    /\ e_chapter_num = 1
    /\ e_i = 1
    /\ e_vocab = <<>>
    /\ e_pc = "idle"

\* the Segmenters at rest, while the orchestrator runs
SegIdle ==
    /\ pages = <<>>
    /\ StructureInit
    /\ CorrectInit

\* the orchestrator at rest, while the Segmenters run
OrchIdle ==
    /\ chapters = <<>>
    /\ max_workers = DefaultMaxWorkers
    /\ credential = TRUE
    /\ pc = "idle"
    /\ submitted = 0
    /\ queue = <<>>
    /\ task = EmptyDict
    /\ invoked = EmptyDict
    /\ results = EmptyDict
    /\ failed = {}
    /\ files = EmptyDict
    /\ writes = EmptyDict
    /\ combined = <<>>

\* main has the lesson map and calls process_all_chapters_parallel; the
\* directory corrected_chapters may hold files of an earlier run
OrchInit ==
    /\ chapters \in OrderedKeys
    /\ max_workers \in (1..MaxParallel) \cup {DefaultMaxWorkers}
    /\ credential \in BOOLEAN
    /\ pc = "submit"
    /\ submitted = 0
    /\ queue = <<>>
    /\ task = [L \in Dispatched |-> "new"]
    /\ invoked = [L \in Dispatched |-> 0]
    /\ results = EmptyDict
    /\ failed = {}
    /\ \E earlier \in SUBSET Dispatched : files = [L \in earlier |-> OldText(L)]
    /\ writes = [L \in Dispatched |-> 0]
    /\ combined = <<>>
    /\ SegIdle
    /\ VocabIdle
    /\ AtomIdle
    /\ ParseIdle
    /\ NormIdle
    /\ ScanIdle

\* executor.submit of the next entry of chapters.items() (lines 165-168)
Submit ==
    /\ pc = "submit"
    /\ submitted < Len(chapters)
    /\ LET num == chapters[submitted + 1]
       IN  /\ queue' = Append(queue, num)
           /\ task' = [task EXCEPT ![num] = "pending"]
    /\ submitted' = submitted + 1
    /\ UNCHANGED <<chapters, max_workers, credential, pc, invoked, results, failed,
                   files, writes, combined>>
    /\ UNCHANGED <<segVars, dedupVars, parseVars, normVars, scanVars>>

\* every task is submitted: the loop over as_completed begins (line 171)
AllSubmitted ==
    /\ pc = "submit"
    /\ submitted = Len(chapters)
    /\ pc' = "collect"
    /\ UNCHANGED <<chapters, max_workers, credential, submitted, queue, task, invoked,
                   results, failed, files, writes, combined>>
    /\ UNCHANGED <<segVars, dedupVars, parseVars, normVars, scanVars>>

\* a free worker thread takes the oldest work item and calls
\* correct_chapter_with_claude, which calls client.messages.create (line 142)
StartTask ==
    /\ queue # <<>>
    /\ SlotFree(InFlight)
    /\ LET num == Head(queue)
       IN  /\ task' = [task EXCEPT ![num] = "running"]
           /\ invoked' = [invoked EXCEPT ![num] = @ + 1]
    /\ queue' = Tail(queue)
    /\ UNCHANGED <<chapters, max_workers, credential, pc, submitted, results, failed,
                   files, writes, combined>>
    /\ UNCHANGED <<segVars, dedupVars, parseVars, normVars, scanVars>>

\* the call returns the corrected text (line 150)
CallReturns(num) ==
    /\ task[num] = "running"
    /\ credential
    /\ task' = [task EXCEPT ![num] = "done_ok"]
    /\ UNCHANGED <<chapters, max_workers, credential, pc, submitted, queue, invoked,
                   results, failed, files, writes, combined>>
    /\ UNCHANGED <<segVars, dedupVars, parseVars, normVars, scanVars>>

\* the call raises: the future holds the exception
CallRaises(num) ==
    /\ task[num] = "running"
    /\ task' = [task EXCEPT ![num] = "done_err"]
    /\ queue' = QueueAfterRaise(queue)
    /\ UNCHANGED <<chapters, max_workers, credential, pc, submitted, invoked,
                   results, failed, files, writes, combined>>
    /\ UNCHANGED <<segVars, dedupVars, parseVars, normVars, scanVars>>

\* the corrector never answers: the call is made without a timeout (lines 142-148)
CallHangs(num) ==
    /\ task[num] = "running"
    /\ credential
    /\ task' = [task EXCEPT ![num] = "hung"]
    /\ UNCHANGED <<chapters, max_workers, credential, pc, submitted, queue, invoked,
                   results, failed, files, writes, combined>>
    /\ UNCHANGED <<segVars, dedupVars, parseVars, normVars, scanVars>>

\* one iteration of the loop over as_completed (lines 171-185)
Collect(num) ==
    /\ pc = "collect"
    /\ task[num] \in {"done_ok", "done_err"}
    /\ results' = ResultsAfter(results, num, task[num])
    /\ files' = FilesAfter(files, num, task[num])
    /\ writes' = WritesAfter(writes, num, task[num])
    /\ failed' = IF task[num] = "done_err" THEN failed \cup {num} ELSE failed
    /\ task' = [task EXCEPT ![num] = IF task[num] = "done_ok" THEN "collected_ok"
                                                              ELSE "collected_err"]
    /\ UNCHANGED <<chapters, max_workers, credential, pc, submitted, queue, invoked,
                   combined>>
    /\ UNCHANGED <<segVars, dedupVars, parseVars, normVars, scanVars>>

ReturnResultsEarly ==
    /\ pc = "collect"
    /\ pc' = "returned"
    /\ UNCHANGED <<chapters, max_workers, credential, submitted, queue, task, invoked,
                   results, failed, files, writes, combined>>
    /\ UNCHANGED <<segVars, dedupVars, parseVars, normVars, scanVars>>

\* as_completed is exhausted, the executor shuts down, results is returned
\* (lines 186-187)
ReturnResults ==
    /\ pc = "collect"
    /\ \A L \in Dispatched : task[L] \in {"collected_ok", "collected_err"}
    /\ pc' = "returned"
    /\ UNCHANGED <<chapters, max_workers, credential, submitted, queue, task, invoked,
                   results, failed, files, writes, combined>>
    /\ UNCHANGED <<segVars, dedupVars, parseVars, normVars, scanVars>>

\* the width of the divider line "=" * 70
DividerWidth == 70

\* the two header lines of all_content (lines 194-195)
HeaderLines == << <<"header", 1>>, <<"header", 2>> >>

\* "\n" + "=" * 70 + "\n"
Divider == <<"divider", DividerWidth>>

\* the string "\n"
Newline == <<"newline", 1>>

\* the chapter files in the order of the keys of chapters
RECURSIVE ChaptersInDictOrder(_, _)
ChaptersInDictOrder(i, fs) ==
    IF i > Len(chapters) THEN <<>>
    ELSE (IF chapters[i] \in DOMAIN fs THEN <<Divider, fs[chapters[i]], Newline>> ELSE <<>>)
            \o ChaptersInDictOrder(i + 1, fs)

\* the items appended for the chapter files that exist, in the order of
\* range(1, 16) (lines 197-204)
RECURSIVE ChaptersFrom(_, _)
ChaptersFrom(i, fs) ==
    IF i > MaxLesson THEN <<>>
    ELSE (IF i \in DOMAIN fs THEN <<Divider, fs[i], Newline>> ELSE <<>>)
            \o ChaptersFrom(i + 1, fs)

\* '\n'.join(all_content) (line 207): the items with "\n" between them
RECURSIVE JoinLines(_)
JoinLines(all_content) ==
    IF Len(all_content) <= 1 THEN all_content
    ELSE <<Head(all_content), Newline>> \o JoinLines(Tail(all_content))

\* combine_all_chapters, called by main after the batch (lines 190-210, 234)
Combine ==
    /\ pc = "returned"
    /\ combined' = JoinLines(HeaderLines \o ChaptersFrom(1, files))
    /\ pc' = "combined"
    /\ UNCHANGED <<chapters, max_workers, credential, submitted, queue, task, invoked,
                   results, failed, files, writes>>
    /\ UNCHANGED <<segVars, dedupVars, parseVars, normVars, scanVars>>

OrchNext ==
    \/ Submit
    \/ AllSubmitted
    \/ StartTask
    \/ \E num \in Dispatched : CallReturns(num)
    \/ \E num \in Dispatched : CallRaises(num)
    \/ \E num \in Dispatched : CallHangs(num)
    \/ \E num \in Dispatched : Collect(num)
    \/ ReturnResults
    \/ Combine

OrchSpec == OrchInit /\ [][OrchNext]_vars

----------------------------------------------------------------------------
(* The Segmenters over every page sequence of at most MaxPages pages *)

SegInit ==
    /\ pages \in SeqsUpTo(PageTexts, MaxPages)
    /\ StructureInit
    /\ CorrectInit
    /\ OrchIdle
    /\ VocabIdle
    /\ AtomIdle
    /\ ParseIdle
    /\ NormIdle
    /\ ScanIdle

SegNext ==
    \/ StructurePage
    \/ StructureReturn
    \/ CorrectPage
    \/ CorrectReturn

SegSpec == SegInit /\ [][SegNext]_vars

----------------------------------------------------------------------------
(* Records of the vocabulary and atom extraction *)

\* a chapter holds at most MaxEntries entries (atoms)
MaxEntries == 2

\* the chapter numbers that may have a chapter file
DedupChapters == {1, 2}

\* the words, ASCII stand-ins of the Chinese words
Words == {"ni", "wu"}

\* the order of Python's string comparison on the words
WordRank == [w \in Words |-> IF w = "ni" THEN 1 ELSE 2]

\* entries as parse_vocab_line returns them, and atoms as the reply lists them
Entries ==
    { [word |-> "wu",  pinyin |-> "wu3",  part_of_speech |-> "numeral", meaning |-> "five"],
      [word |-> "wu",  pinyin |-> "wu2",  part_of_speech |-> "noun",    meaning |-> "nothing"],
      [word |-> "ni",  pinyin |-> "ni3",  part_of_speech |-> "pronoun", meaning |-> "you"] }

EntryLists == SeqsUpTo(Entries, MaxEntries)

\* the contents hsk1_vocabulary.json may have when extract_atoms starts
Seeds == {{}, {"wu"}, {"wu", "ni"}}

\* entry['chapter'] = chapter_num; entry['source'] = 'hsk1'
TagEntry(entry, chapter_num) ==
    [word |-> entry.word, pinyin |-> entry.pinyin,
     part_of_speech |-> entry.part_of_speech, meaning |-> entry.meaning,
     chapter |-> chapter_num, source |-> "hsk1"]

\* atom['chapter'] = chapter_num; atom['source'] = 'hsk1'; atom['tag'] = 'atom'
TagAtom(atom, chapter_num) ==
    [word |-> atom.word, pinyin |-> atom.pinyin,
     part_of_speech |-> atom.part_of_speech, meaning |-> atom.meaning,
     chapter |-> chapter_num, source |-> "hsk1", tag |-> "atom"]

\* a JSON output file written with the list vocab
Written(vocab) == [exists |-> TRUE, vocab |-> vocab]

SeenAfterForget(seen, word) == seen

\* seen_words.add(entry['word'])
SeenAfter(seen, word) == seen \cup {word}

VocabAfterOverwrite(all, entry, seen) ==
    IF entry.word \notin seen THEN Append(all, entry)
    ELSE [k \in 1..Len(all) |-> IF all[k].word = entry.word THEN entry ELSE all[k]]

\* the list of accepted records after one pass of the de-duplication loop body
VocabAfter(all, entry, seen) ==
    IF entry.word \notin seen THEN Append(all, entry) ELSE all

\* the "Skipping duplicate" lines after one pass of the loop body
SkippedAfter(skipped, entry, seen, chapter_num) ==
    IF entry.word \notin seen THEN skipped
    ELSE Append(skipped, <<entry.word, chapter_num>>)

----------------------------------------------------------------------------
(* extract_vocabulary.extract_all_chapters and main *)

\* extract_vocab_from_chapter(chapter_path, i)
chapter_vocab(i) ==
    [k \in 1..Len(chapter_files[i]) |-> TagEntry(chapter_files[i][k], i)]

\* main calls extract_all_chapters: all_vocab = [], seen_words = set()
VocabStart ==
    /\ \E D \in SUBSET DedupChapters : chapter_files \in [D -> EntryLists]
    /\ v_pc = "loop"
    /\ v_i = 1
    /\ v_k = 1
    /\ all_vocab = <<>>
    /\ v_seen_words = {}
    /\ v_skipped = <<>>
    /\ hsk1_vocabulary = NotWritten

\* for i in range(1, 16): the chapter file does not exist
VocabNoFile ==
    /\ v_pc = "loop"
    /\ v_i <= MaxLesson
    /\ v_i \notin DOMAIN chapter_files
    /\ v_i' = v_i + 1
    /\ UNCHANGED <<chapter_files, v_pc, v_k, all_vocab, v_seen_words, v_skipped,
                   hsk1_vocabulary>>
    /\ UNCHANGED <<segVars, orchVars, atomVars, parseVars, normVars, scanVars>>

\* one pass of "for entry in chapter_vocab"
VocabEntry ==
    /\ v_pc = "loop"
    /\ v_i <= MaxLesson
    /\ v_i \in DOMAIN chapter_files
    /\ v_k <= Len(chapter_files[v_i])
    /\ LET entry == chapter_vocab(v_i)[v_k]
       IN  /\ all_vocab' = VocabAfter(all_vocab, entry, v_seen_words)
           /\ v_seen_words' = IF entry.word \notin v_seen_words
                                THEN SeenAfter(v_seen_words, entry.word)
                                ELSE v_seen_words
           /\ v_skipped' = SkippedAfter(v_skipped, entry, v_seen_words, v_i)
    /\ v_k' = v_k + 1
    /\ UNCHANGED <<chapter_files, v_pc, v_i, hsk1_vocabulary>>
    /\ UNCHANGED <<segVars, orchVars, atomVars, parseVars, normVars, scanVars>>

\* chapter_vocab is exhausted: the next i
VocabNextChapter ==
    /\ v_pc = "loop"
    /\ v_i <= MaxLesson
    /\ v_i \in DOMAIN chapter_files
    /\ v_k > Len(chapter_files[v_i])
    /\ v_i' = v_i + 1
    /\ v_k' = 1
    /\ UNCHANGED <<chapter_files, v_pc, all_vocab, v_seen_words, v_skipped,
                   hsk1_vocabulary>>
    /\ UNCHANGED <<segVars, orchVars, atomVars, parseVars, normVars, scanVars>>

\* return all_vocab
VocabReturn ==
    /\ v_pc = "loop"
    /\ v_i > MaxLesson
    /\ v_pc' = "returned"
    /\ UNCHANGED <<chapter_files, v_i, v_k, all_vocab, v_seen_words, v_skipped,
                   hsk1_vocabulary>>
    /\ UNCHANGED <<segVars, orchVars, atomVars, parseVars, normVars, scanVars>>

\* main: json.dump(vocab, f)
VocabSave ==
    /\ v_pc = "returned"
    /\ hsk1_vocabulary' = Written(all_vocab)
    /\ v_pc' = "saved"
    /\ UNCHANGED <<chapter_files, v_i, v_k, all_vocab, v_seen_words, v_skipped>>
    /\ UNCHANGED <<segVars, orchVars, atomVars, parseVars, normVars, scanVars>>

VocabNext ==
    \/ VocabNoFile
    \/ VocabEntry
    \/ VocabNextChapter
    \/ VocabReturn
    \/ VocabSave

----------------------------------------------------------------------------
(* extract_atoms.process_all_chapters and main *)

\* the keys of the dict chapters of process_all_chapters
a_chapters == DOMAIN replies

InitialSeenEmpty(existing) == {}

\* seen_words = set(existing_hsk_words)
InitialSeen(existing) == existing

\* the ascending sequence of a set of numbers
RECURSIVE SortedSeq(_)
SortedSeq(S) ==
    IF S = {} THEN <<>>
    ELSE LET least == CHOOSE x \in S : \A y \in S : x <= y
         IN  <<least>> \o SortedSeq(S \ {least})

\* the keys of chapter_results in insertion order
InsertionKeys(cr) == [k \in 1..Len(cr) |-> cr[k].num]

\* sorted(chapter_results.keys())
CombineKeys(cr) == SortedSeq({cr[k].num : k \in 1..Len(cr)})

\* chapter_results[chapter_num]
ResultOf(cr, chapter_num) ==
    LET k == CHOOSE j \in 1..Len(cr) : cr[j].num = chapter_num
    IN  cr[k].atoms

\* the threads of the executor that run a call
AtomsInFlight == {n \in a_chapters : a_task[n] = "running"}

\* the key (x['chapter'], x['word']) of x is less than that of y
KeyLess(x, y) ==
    \/ x.chapter < y.chapter
    \/ x.chapter = y.chapter /\ WordRank[x.word] < WordRank[y.word]

RECURSIVE InsertSorted(_, _)
InsertSorted(x, s) ==
    IF s = <<>> THEN <<x>>
    ELSE IF KeyLess(x, Head(s)) THEN <<x>> \o s
    ELSE <<Head(s)>> \o InsertSorted(x, Tail(s))

\* atoms.sort(key=lambda x: (x['chapter'], x['word'])), a stable sort
RECURSIVE SortAtoms(_)
SortAtoms(s) ==
    IF s = <<>> THEN <<>>
    ELSE InsertSorted(s[Len(s)], SortAtoms(SubSeq(s, 1, Len(s) - 1)))

\* main calls process_all_chapters: the seed is loaded, the chapters are read
AtomStart ==
    /\ existing_hsk_words \in Seeds
    /\ \E D \in SUBSET DedupChapters : replies \in [D -> EntryLists]
    /\ a_pc = "submit"
    /\ a_task = [n \in a_chapters |-> "new"]
    /\ a_returned = [n \in a_chapters |-> <<>>]
    /\ chapter_results = <<>>
    /\ a_ci = 1
    /\ a_k = 1
    /\ all_atoms = <<>>
    /\ a_seen_words = InitialSeen(existing_hsk_words)
    /\ a_skipped = <<>>
    /\ hsk1_atoms = NotWritten

\* executor.submit(extract_atoms_with_claude, num, ...), in the order of chapters
AtomSubmit ==
    /\ a_pc = "submit"
    /\ \E num \in a_chapters :
          /\ a_task[num] = "new"
          /\ \A n \in a_chapters : n < num => a_task[n] # "new"
          /\ a_task' = [a_task EXCEPT ![num] = "pending"]
    /\ UNCHANGED <<existing_hsk_words, replies, a_pc, a_returned, chapter_results,
                   a_ci, a_k, all_atoms, a_seen_words, a_skipped, hsk1_atoms>>
    /\ UNCHANGED <<segVars, orchVars, vocabVars, parseVars, normVars, scanVars>>

\* every chapter is submitted: the loop over as_completed starts
AtomAllSubmitted ==
    /\ a_pc = "submit"
    /\ \A n \in a_chapters : a_task[n] # "new"
    /\ a_pc' = "collect"
    /\ UNCHANGED <<existing_hsk_words, replies, a_task, a_returned, chapter_results,
                   a_ci, a_k, all_atoms, a_seen_words, a_skipped, hsk1_atoms>>
    /\ UNCHANGED <<segVars, orchVars, vocabVars, parseVars, normVars, scanVars>>

\* a free thread of the executor takes the oldest work item
AtomTaskStart(num) ==
    /\ a_task[num] = "pending"
    /\ \A n \in a_chapters : n < num => a_task[n] # "pending"
    /\ Cardinality(AtomsInFlight) < DefaultMaxWorkers
    /\ a_task' = [a_task EXCEPT ![num] = "running"]
    /\ UNCHANGED <<existing_hsk_words, replies, a_pc, a_returned, chapter_results,
                   a_ci, a_k, all_atoms, a_seen_words, a_skipped, hsk1_atoms>>
    /\ UNCHANGED <<segVars, orchVars, vocabVars, parseVars, normVars, scanVars>>

\* extract_atoms_with_claude returns the tagged atoms of the reply
AtomCallReturns(num) ==
    /\ a_task[num] = "running"
    /\ a_task' = [a_task EXCEPT ![num] = "done"]
    /\ a_returned' = [a_returned EXCEPT
                        ![num] = [k \in 1..Len(replies[num]) |-> TagAtom(replies[num][k], num)]]
    /\ UNCHANGED <<existing_hsk_words, replies, a_pc, chapter_results,
                   a_ci, a_k, all_atoms, a_seen_words, a_skipped, hsk1_atoms>>
    /\ UNCHANGED <<segVars, orchVars, vocabVars, parseVars, normVars, scanVars>>

\* the call or the decoding of its reply raises: the task ends with []
AtomCallFails(num) ==
    /\ a_task[num] = "running"
    /\ a_task' = [a_task EXCEPT ![num] = "done"]
    /\ a_returned' = [a_returned EXCEPT ![num] = <<>>]
    /\ UNCHANGED <<existing_hsk_words, replies, a_pc, chapter_results,
                   a_ci, a_k, all_atoms, a_seen_words, a_skipped, hsk1_atoms>>
    /\ UNCHANGED <<segVars, orchVars, vocabVars, parseVars, normVars, scanVars>>

\* one pass of the loop over as_completed: chapter_results[chapter_num] = atoms
AtomCollect(num) ==
    /\ a_pc = "collect"
    /\ a_task[num] = "done"
    /\ a_task' = [a_task EXCEPT ![num] = "collected"]
    /\ chapter_results' = Append(chapter_results, [num |-> num, atoms |-> a_returned[num]])
    /\ UNCHANGED <<existing_hsk_words, replies, a_pc, a_returned,
                   a_ci, a_k, all_atoms, a_seen_words, a_skipped, hsk1_atoms>>
    /\ UNCHANGED <<segVars, orchVars, vocabVars, parseVars, normVars, scanVars>>

AtomExecutorExitEarly ==
    /\ a_pc = "collect"
    /\ \E n \in a_chapters : a_task[n] = "collected"
    /\ a_pc' = "combine"
    /\ UNCHANGED <<existing_hsk_words, replies, a_task, a_returned, chapter_results,
                   a_ci, a_k, all_atoms, a_seen_words, a_skipped, hsk1_atoms>>
    /\ UNCHANGED <<segVars, orchVars, vocabVars, parseVars, normVars, scanVars>>

\* the loop over as_completed ends and the executor is shut down
AtomExecutorExit ==
    /\ a_pc = "collect"
    /\ \A n \in a_chapters : a_task[n] = "collected"
    /\ a_pc' = "combine"
    /\ UNCHANGED <<existing_hsk_words, replies, a_task, a_returned, chapter_results,
                   a_ci, a_k, all_atoms, a_seen_words, a_skipped, hsk1_atoms>>
    /\ UNCHANGED <<segVars, orchVars, vocabVars, parseVars, normVars, scanVars>>

\* one pass of "for atom in chapter_results[chapter_num]"
AtomEntry ==
    /\ a_pc = "combine"
    /\ a_ci <= Len(CombineKeys(chapter_results))
    /\ LET chapter_num == CombineKeys(chapter_results)[a_ci]
           atoms == ResultOf(chapter_results, chapter_num)
       IN  /\ a_k <= Len(atoms)
           /\ all_atoms' = VocabAfter(all_atoms, atoms[a_k], a_seen_words)
           /\ a_seen_words' = IF atoms[a_k].word \notin a_seen_words
                                THEN SeenAfter(a_seen_words, atoms[a_k].word)
                                ELSE a_seen_words
           /\ a_skipped' = SkippedAfter(a_skipped, atoms[a_k], a_seen_words, chapter_num)
    /\ a_k' = a_k + 1
    /\ UNCHANGED <<existing_hsk_words, replies, a_pc, a_task, a_returned,
                   chapter_results, a_ci, hsk1_atoms>>
    /\ UNCHANGED <<segVars, orchVars, vocabVars, parseVars, normVars, scanVars>>

\* the atoms of the chapter are exhausted: the next chapter_num
AtomNextChapter ==
    /\ a_pc = "combine"
    /\ a_ci <= Len(CombineKeys(chapter_results))
    /\ a_k > Len(ResultOf(chapter_results, CombineKeys(chapter_results)[a_ci]))
    /\ a_ci' = a_ci + 1
    /\ a_k' = 1
    /\ UNCHANGED <<existing_hsk_words, replies, a_pc, a_task, a_returned,
                   chapter_results, all_atoms, a_seen_words, a_skipped, hsk1_atoms>>
    /\ UNCHANGED <<segVars, orchVars, vocabVars, parseVars, normVars, scanVars>>

\* return all_atoms
AtomReturn ==
    /\ a_pc = "combine"
    /\ a_ci > Len(CombineKeys(chapter_results))
    /\ a_pc' = "returned"
    /\ UNCHANGED <<existing_hsk_words, replies, a_task, a_returned, chapter_results,
                   a_ci, a_k, all_atoms, a_seen_words, a_skipped, hsk1_atoms>>
    /\ UNCHANGED <<segVars, orchVars, vocabVars, parseVars, normVars, scanVars>>

\* main: atoms.sort(...)
AtomSort ==
    /\ a_pc = "returned"
    /\ all_atoms' = SortAtoms(all_atoms)
    /\ a_pc' = "sorted"
    /\ UNCHANGED <<existing_hsk_words, replies, a_task, a_returned, chapter_results,
                   a_ci, a_k, a_seen_words, a_skipped, hsk1_atoms>>
    /\ UNCHANGED <<segVars, orchVars, vocabVars, parseVars, normVars, scanVars>>

\* main: json.dump(atoms, f)
AtomSave ==
    /\ a_pc = "sorted"
    /\ hsk1_atoms' = Written(all_atoms)
    /\ a_pc' = "saved"
    /\ UNCHANGED <<existing_hsk_words, replies, a_task, a_returned, chapter_results,
                   a_ci, a_k, all_atoms, a_seen_words, a_skipped>>
    /\ UNCHANGED <<segVars, orchVars, vocabVars, parseVars, normVars, scanVars>>

AtomNext ==
    \/ AtomSubmit
    \/ AtomAllSubmitted
    \/ \E num \in a_chapters : AtomTaskStart(num)
    \/ \E num \in a_chapters : AtomCallReturns(num)
    \/ \E num \in a_chapters : AtomCallFails(num)
    \/ \E num \in a_chapters : AtomCollect(num)
    \/ AtomExecutorExit
    \/ AtomEntry
    \/ AtomNextChapter
    \/ AtomReturn
    \/ AtomSort
    \/ AtomSave

----------------------------------------------------------------------------
(* A run of extract_vocabulary or a run of extract_atoms *)

DedupInit ==
    /\ SegIdle
    /\ OrchIdle
    /\ \/ VocabStart /\ AtomIdle
       \/ AtomStart /\ VocabIdle
    /\ ParseIdle
    /\ NormIdle
    /\ ScanIdle

DedupNext ==
    \/ VocabNext
    \/ AtomNext

DedupSpec == DedupInit /\ [][DedupNext]_vars

----------------------------------------------------------------------------
(* extract_vocabulary.parse_vocab_line *)
(* A line is a sequence of one-character strings.  "@" and "%" stand for   *)
(* Chinese characters: they are neither whitespace, digits, letters, "."   *)
(* nor "|".  Pinyin is written without tone marks.                          *)

LowerLetters == <<"a", "b", "c", "d", "e", "f", "g", "h", "i", "j", "k", "l", "m", "n", "o", "p", "q", "r", "s", "t", "u", "v", "w", "x", "y", "z">>

UpperLetters == <<"A", "B", "C", "D", "E", "F", "G", "H", "I", "J", "K", "L", "M", "N", "O", "P", "Q", "R", "S", "T", "U", "V", "W", "X", "Y", "Z">>

\* the class [a-zA-Z...] of the patterns, under re.IGNORECASE
PinyinChars == {LowerLetters[k] : k \in 1..Len(LowerLetters)}
                  \cup {UpperLetters[k] : k \in 1..Len(UpperLetters)}

\* str.lower() on one character
Lower(c) ==
    IF \E k \in 1..Len(UpperLetters) : UpperLetters[k] = c
    THEN LowerLetters[CHOOSE k \in 1..Len(UpperLetters) : UpperLetters[k] = c]
    ELSE c

\* str.lower()
LowerText(s) == [k \in 1..Len(s) |-> Lower(s[k])]

\* '|' in line
Contains(s, c) == \E k \in 1..Len(s) : s[k] = c

\* str.split(sep) for a separator of one character
RECURSIVE Split(_, _)
Split(s, sep) ==
    IF ~Contains(s, sep) THEN <<s>>
    ELSE LET k == CHOOSE j \in 1..Len(s) : s[j] = sep /\ \A h \in 1..(j - 1) : s[h] # sep
         IN  <<SubSeq(s, 1, k - 1)>> \o Split(SubSeq(s, k + 1, Len(s)), sep)

\* the position after the longest run of characters of S that starts at i
RECURSIVE RunEnd(_, _, _)
RunEnd(s, i, S) ==
    IF i >= 1 /\ i <= Len(s) /\ s[i] \in S THEN RunEnd(s, i + 1, S) ELSE i

\* the position after the longest run of characters not in S that starts at i
RECURSIVE RunEndNot(_, _, _)
RunEndNot(s, i, S) ==
    IF i >= 1 /\ i <= Len(s) /\ s[i] \notin S THEN RunEndNot(s, i + 1, S) ELSE i

\* the text t, in lower case, is at position i of s, letter case ignored
StartsWith(s, i, t) ==
    /\ i + Len(t) - 1 <= Len(s)
    /\ \A k \in 1..Len(t) : Lower(s[i + k - 1]) = t[k]

\* "." of a pattern matches every character of s from position i on
NoNewlineFrom(s, i) == \A k \in i..Len(s) : s[k] # "\n"

\* POS_MAPPING, as pairs of key and value
POS_MAPPING ==
    { <<<<"p", "r", "o", "n", ".">>, "pronoun">>,
      <<<<"p", "r", "o", "n">>, "pronoun">>,
      <<<<"a", "d", "j", ".">>, "adjective">>,
      <<<<"a", "d", "j">>, "adjective">>,
      <<<<"v", ".">>, "verb">>,
      <<<<"v", "e", "r", "b">>, "verb">>,
      <<<<"n", ".">>, "noun">>,
      <<<<"n", "o", "u", "n">>, "noun">>,
      <<<<"a", "d", "v", ".">>, "adverb">>,
      <<<<"a", "d", "v">>, "adverb">>,
      <<<<"p", "r", "e", "p", ".">>, "preposition">>,
      <<<<"p", "r", "e", "p">>, "preposition">>,
      <<<<"c", "o", "n", "j", ".">>, "conjunction">>,
      <<<<"c", "o", "n", "j">>, "conjunction">>,
      <<<<"p", "a", "r", "t", ".">>, "particle">>,
      <<<<"p", "a", "r", "t", "i", "c", "l", "e">>, "particle">>,
      <<<<"n", "u", "m", ".">>, "numeral">>,
      <<<<"n", "u", "m", "e", "r", "a", "l">>, "numeral">>,
      <<<<"m", ".">>, "measure_word">>,
      <<<<"m", "w", ".">>, "measure_word">>,
      <<<<"m", "e", "a", "s", "u", "r", "e", " ", "w", "o", "r", "d">>, "measure_word">>,
      <<<<"i", "n", "t", "e", "r", "j", ".">>, "interjection">>,
      <<<<"i", "n", "t", "e", "r", "j">>, "interjection">> }

\* pos = 'other'
OtherPos == <<"o", "t", "h", "e", "r">>

\* normalize_pos: POS_MAPPING.get(pos.lower().strip(), 'other')
normalize_pos(pos) ==
    LET pos_lower == Strip(LowerText(pos))
    IN  IF \E e \in POS_MAPPING : e[1] = pos_lower
        THEN (CHOOSE e \in POS_MAPPING : e[1] = pos_lower)[2]
        ELSE "other"

\* the dict that parse_vocab_line returns
EntryDict(chinese, pinyin, pos, meaning) ==
    [word |-> Strip(chinese), pinyin |-> Strip(pinyin),
     part_of_speech |-> normalize_pos(pos), meaning |-> Strip(meaning)]

\* ^(\d+)\. at the start of s: the position after the period, 0 for no match
OrdinalHead(s) ==
    LET e == RunEnd(s, 1, Digits)
    IN  IF e > 1 /\ e <= Len(s) /\ s[e] = "." THEN e + 1 ELSE 0

MinColumnsFour == 3 + 1

\* len(parts) >= 3
MinColumns == 3

\* the pipe-separated form: the dict returned, NoEntry when the form is left
DelimitedRecord(line) ==
    IF ~Contains(line, "|") THEN NoEntry
    ELSE LET parts == Split(line, "|")
         IN  IF Len(parts) < MinColumns THEN NoEntry
             ELSE LET first == Strip(parts[1])
                      h == OrdinalHead(first)
                      c == RunEnd(first, h, Whitespace)
                  IN  IF h = 0 \/ c > Len(first) \/ ~NoNewlineFrom(first, c) THEN NoEntry
                      ELSE LET chinese == SubSeq(first, c, Len(first))
                               pinyin == Strip(parts[2])
                               pos == IF Len(parts) >= 4
                                        THEN (IF Strip(parts[3]) = <<>> THEN OtherPos
                                              ELSE Strip(parts[3]))
                                        ELSE OtherPos
                               meaning == IF Len(parts) >= 4 THEN Strip(parts[4])
                                          ELSE Strip(parts[3])
                           IN  IF chinese # <<>> /\ pinyin # <<>>
                                 THEN EntryDict(chinese, pinyin, pos, meaning)
                                 ELSE NoEntry

\* the alternatives of (?:pron|adj|v|n|adv|prep|conj|part|num|m|mw|interj), in order
PosAlternatives ==
    << <<"p", "r", "o", "n">>,
       <<"a", "d", "j">>,
       <<"v">>,
       <<"n">>,
       <<"a", "d", "v">>,
       <<"p", "r", "e", "p">>,
       <<"c", "o", "n", "j">>,
       <<"p", "a", "r", "t">>,
       <<"n", "u", "m">>,
       <<"m">>,
       <<"m", "w">>,
       <<"i", "n", "t", "e", "r", "j">> >>

\* the position where (.+) starts after \s* from position b, 0 when nothing is left
MeaningStart(s, b) ==
    IF b > Len(s) THEN 0
    ELSE LET m == IF RunEnd(s, b, Whitespace) <= Len(s) THEN RunEnd(s, b, Whitespace)
                  ELSE Len(s)
         IN  IF NoNewlineFrom(s, m) THEN m ELSE 0

\* the alternative t followed by \.?\s*(.+)$ at position a of s:
\* the position after the group of the abbreviation, 0 for no match
PosEnd(s, a, t) ==
    IF ~StartsWith(s, a, t) THEN 0
    ELSE LET b == a + Len(t)
         IN  IF b <= Len(s) /\ s[b] = "." /\ MeaningStart(s, b + 1) # 0 THEN b + 1
             ELSE IF MeaningStart(s, b) # 0 THEN b
             ELSE 0

\* ((?:...)\.?)\s*(.+)$ at position a of s: the first alternative that
\* matches, as the pair of the abbreviation and the meaning; <<>> for no match
PosMatch(s, a) ==
    IF \E k \in 1..Len(PosAlternatives) : PosEnd(s, a, PosAlternatives[k]) # 0
    THEN LET k == CHOOSE j \in 1..Len(PosAlternatives) :
                     /\ PosEnd(s, a, PosAlternatives[j]) # 0
                     /\ \A h \in 1..(j - 1) : PosEnd(s, a, PosAlternatives[h]) = 0
             e == PosEnd(s, a, PosAlternatives[k])
         IN  <<SubSeq(s, a, e - 1), SubSeq(s, MeaningStart(s, e), Len(s))>>
    ELSE <<>>

\* ^(\d+)\.\s*(\S+)\s+([a-zA-Z...]+ of s: the positions of the word and of the
\* first syllable, ok FALSE for no match
LineHead(s) ==
    LET h == OrdinalHead(s)
        w0 == RunEnd(s, h, Whitespace)
        w1 == RunEndNot(s, w0, Whitespace)
        p0 == RunEnd(s, w1, Whitespace)
        p1 == RunEnd(s, p0, PinyinChars)
    IN  [ok |-> h # 0 /\ w1 > w0 /\ p0 > w1 /\ p1 > p0,
         w0 |-> w0, w1 |-> w1, p0 |-> p0, p1 |-> p1]

\* (?:\s+[a-zA-Z...]+)? taken: the position after the second syllable, 0 when
\* there is none
SecondSyllableEnd(s, p1) ==
    LET q0 == RunEnd(s, p1, Whitespace)
        q1 == RunEnd(s, q0, PinyinChars)
    IN  IF q0 > p1 /\ q1 > q0 THEN q1 ELSE 0

\* \s+ at position p of s: the position after it, 0 for no match
SpacesEnd(s, p) ==
    IF RunEnd(s, p, Whitespace) > p THEN RunEnd(s, p, Whitespace) ELSE 0

\* the space-separated form with the abbreviation (pattern): the dict returned,
\* NoEntry for no match
TaggedRecord(line) ==
    LET s == Strip(line)
        head == LineHead(s)
    IN  IF ~head.ok THEN NoEntry
        ELSE LET q1 == SecondSyllableEnd(s, head.p1)
                 two == IF q1 # 0 /\ SpacesEnd(s, q1) # 0
                          THEN PosMatch(s, SpacesEnd(s, q1)) ELSE <<>>
                 one == IF SpacesEnd(s, head.p1) # 0
                          THEN PosMatch(s, SpacesEnd(s, head.p1)) ELSE <<>>
             IN  IF two # <<>>
                   THEN EntryDict(SubSeq(s, head.w0, head.w1 - 1),
                                   SubSeq(s, head.p0, q1 - 1), two[1], two[2])
                 ELSE IF one # <<>>
                   THEN EntryDict(SubSeq(s, head.w0, head.w1 - 1),
                                   SubSeq(s, head.p0, head.p1 - 1), one[1], one[2])
                 ELSE NoEntry

\* \s+(.+)$ at position p of s: the position where (.+) starts, 0 for no match
MeaningStartAfterSpaces(s, p) ==
    IF SpacesEnd(s, p) = 0 THEN 0
    ELSE IF SpacesEnd(s, p) <= Len(s)
      THEN (IF NoNewlineFrom(s, SpacesEnd(s, p)) THEN SpacesEnd(s, p) ELSE 0)
    ELSE IF SpacesEnd(s, p) - p >= 2 /\ s[Len(s)] # "\n" THEN Len(s)
    ELSE 0

\* the dict of pattern2 for the pinyin and the meaning it matched
UntaggedEntry(chinese, pinyin, meaning) ==
    IF PosMatch(meaning, 1) # <<>>
    THEN EntryDict(chinese, pinyin, PosMatch(meaning, 1)[1], PosMatch(meaning, 1)[2])
    ELSE EntryDict(chinese, pinyin, OtherPos, meaning)

\* the space-separated form without the abbreviation (pattern2): the dict
\* returned, NoEntry for no match
UntaggedRecord(line) ==
    LET s == Strip(line)
        head == LineHead(s)
    IN  IF ~head.ok THEN NoEntry
        ELSE LET q1 == SecondSyllableEnd(s, head.p1)
                 m2 == IF q1 # 0 THEN MeaningStartAfterSpaces(s, q1) ELSE 0
                 m1 == MeaningStartAfterSpaces(s, head.p1)
             IN  IF m2 # 0
                   THEN UntaggedEntry(SubSeq(s, head.w0, head.w1 - 1),
                                      SubSeq(s, head.p0, q1 - 1), SubSeq(s, m2, Len(s)))
                 ELSE IF m1 # 0
                   THEN UntaggedEntry(SubSeq(s, head.w0, head.w1 - 1),
                                      SubSeq(s, head.p0, head.p1 - 1), SubSeq(s, m1, Len(s)))
                 ELSE NoEntry

parse_vocab_line_tagged_first(line) ==
    IF TaggedRecord(line) # NoEntry THEN TaggedRecord(line)
    ELSE IF DelimitedRecord(line) # NoEntry THEN DelimitedRecord(line)
    ELSE UntaggedRecord(line)

\* parse_vocab_line: the pipe-separated form, then pattern, then pattern2
parse_vocab_line(line) ==
    IF DelimitedRecord(line) # NoEntry THEN DelimitedRecord(line)
    ELSE IF TaggedRecord(line) # NoEntry THEN TaggedRecord(line)
    ELSE UntaggedRecord(line)

----------------------------------------------------------------------------
(* The lines parse_vocab_line is applied to *)

Space == <<" ">>

Bar == <<" ", "|", " ">>

Ordinals == { <<"1", ".">>,
      <<"1", "2", ".">> }

WordTexts == { <<"@">>,
      <<"@", "%">> }

PinyinTexts == { <<"n", "i">>,
      <<"n", "i", " ", "h", "a", "o">>,
      <<"X", "i", "e">> }

\* the abbreviations of the pattern with their period, and other tokens
PosTexts ==
    { <<"p", "r", "o", "n", ".">>,
      <<"a", "d", "j", ".">>,
      <<"v", ".">>,
      <<"n", ".">>,
      <<"a", "d", "v", ".">>,
      <<"p", "r", "e", "p", ".">>,
      <<"c", "o", "n", "j", ".">>,
      <<"p", "a", "r", "t", ".">>,
      <<"n", "u", "m", ".">>,
      <<"m", ".">>,
      <<"m", "w", ".">>,
      <<"i", "n", "t", "e", "r", "j", ".">>,
      <<"v">>,
      <<"n">>,
      <<"p", "r", "o", "n">>,
      <<"A", "D", "J", ".">>,
      <<"x", ".">>,
      <<"v", "e", "r", "b">> }

MeaningTexts == { <<"y", "o", "u">>,
      <<"(", "a", ")", " ", "b">>,
      <<"t", "o", " ", "t", "h", "a", "n", "k">>,
      <<"n", "a", "m", "e">> }

\* "N. W P A M"
TaggedShaped ==
    {o \o Space \o wd \o Space \o p \o Space \o a \o Space \o m :
        o \in Ordinals, wd \in WordTexts, p \in PinyinTexts, a \in PosTexts, m \in MeaningTexts}

\* "N. W P M"
UntaggedShaped ==
    {o \o Space \o wd \o Space \o p \o Space \o m :
        o \in Ordinals, wd \in WordTexts, p \in PinyinTexts, m \in MeaningTexts}

\* "N. W | P | A | M", the column A empty or not
DelimitedShaped ==
    {o \o Space \o wd \o Bar \o p \o Bar \o a \o Bar \o m :
        o \in Ordinals, wd \in WordTexts, p \in PinyinTexts, a \in PosTexts \cup {<<>>},
        m \in MeaningTexts}

\* "N. W | P | M"
ThreeColumns ==
    {o \o Space \o wd \o Bar \o p \o Bar \o m :
        o \in Ordinals, wd \in WordTexts, p \in PinyinTexts, m \in MeaningTexts}

\* "N. W P A M | P | M": lines of the tagged shape with two more columns
BothShaped ==
    {o \o Space \o <<"@">> \o Space \o p \o Space \o a \o Space \o m \o Bar \o q \o Bar \o n :
        o \in Ordinals, p \in PinyinTexts, a \in {<<"v", ".">>, <<"n", "u", "m", ".">>},
        m \in MeaningTexts, q \in PinyinTexts, n \in MeaningTexts}

\* lines of no shape above
OddLines ==
    { <<>>,
      <<"a", "b", "c">>,
      <<"1", ".">>,
      <<"1", ".", " ", "@">>,
      <<"1", ".", " ", "@", " ", "n", "i">>,
      <<"1", ".", "@", " ", "n", "i", " ", "v", ".", "y", "o", "u">>,
      <<" ", "1", ".", " ", "@", " ", "n", "i", " ", "v", ".", " ", "y", "o", "u", " ">>,
      <<"1", ".", " ", "@", " ", "n", "i", " ", "h", "a", "o", " ", "n">>,
      <<"1", ".", " ", "@", " ", "n", "i", " ", "v", ".">>,
      <<"1", ".", " ", "|", " ", "n", "i", " ", "|", " ", "v", ".", " ", "|", " ", "x">>,
      <<"1", ".", " ", "@", " ", "n", "i", " ", "v", ".", " ", "a", " ", "|", " ", " ", "|", " ", "c">>,
      <<"1", ".", " ", "@", " ", "n", "i", " ", "v", ".", " ", "a", " ", "|", " ", "b">>,
      <<"1", ".", " ", "@", " ", "|", " ", "n", "i", " ", "|", " ", "V", ".", " ", "|", " ", "a", " ", "|", " ", "b">>,
      <<"1", ".", " ", "@", " ", "|", " ", "n", "i", " ", "|", " ", " ", "|", " ", "a">>,
      <<"@", " ", "|", " ", "n", "i", " ", "|", " ", "v", ".", " ", "|", " ", "a">>,
      <<"1", ".", " ", "@", " ", "n", "i", "3", " ", "v", ".", " ", "y", "o", "u">>,
      <<"#", " ", "1", ".", " ", "@", " ", "n", "i", " ", "v", ".", " ", "y", "o", "u">>,
      <<"1", ".", " ", "@", " ", "n", "i", " ", "v", " ", "n", " ", "t", "h", "i", "n", "g">> }

Lines == TaggedShaped \cup UntaggedShaped \cup DelimitedShaped \cup ThreeColumns
            \cup BothShaped \cup OddLines

\* parse_vocab_line is called with a line
ParseInit ==
    /\ SegIdle
    /\ OrchIdle
    /\ VocabIdle
    /\ AtomIdle
    /\ NormIdle
    /\ ScanIdle
    /\ p_line \in Lines
    /\ p_pc = "call"
    /\ p_entry = NoEntry

\* parse_vocab_line(line) returns
ParseVocabLine ==
    /\ p_pc = "call"
    /\ p_entry' = parse_vocab_line(p_line)
    /\ p_pc' = "returned"
    /\ UNCHANGED p_line
    /\ UNCHANGED <<segVars, orchVars, dedupVars, normVars, scanVars>>

ParseNext == ParseVocabLine

ParseSpec == ParseInit /\ [][ParseNext]_vars

----------------------------------------------------------------------------
(* extract_vocabulary.normalize_pos on its own *)

\* the tokens normalize_pos is applied to: every abbreviation of the pattern
\* with and without period, in lower case, upper case and capitalized, the
\* other keys of POS_MAPPING, and tokens that are no abbreviation
PosInputs ==
    { <<"p", "r", "o", "n">>,
      <<"P", "R", "O", "N">>,
      <<"P", "r", "o", "n">>,
      <<"p", "r", "o", "n", ".">>,
      <<"P", "R", "O", "N", ".">>,
      <<"P", "r", "o", "n", ".">>,
      <<"a", "d", "j">>,
      <<"A", "D", "J">>,
      <<"A", "d", "j">>,
      <<"a", "d", "j", ".">>,
      <<"A", "D", "J", ".">>,
      <<"A", "d", "j", ".">>,
      <<"v">>,
      <<"V">>,
      <<"v", ".">>,
      <<"V", ".">>,
      <<"n">>,
      <<"N">>,
      <<"n", ".">>,
      <<"N", ".">>,
      <<"a", "d", "v">>,
      <<"A", "D", "V">>,
      <<"A", "d", "v">>,
      <<"a", "d", "v", ".">>,
      <<"A", "D", "V", ".">>,
      <<"A", "d", "v", ".">>,
      <<"p", "r", "e", "p">>,
      <<"P", "R", "E", "P">>,
      <<"P", "r", "e", "p">>,
      <<"p", "r", "e", "p", ".">>,
      <<"P", "R", "E", "P", ".">>,
      <<"P", "r", "e", "p", ".">>,
      <<"c", "o", "n", "j">>,
      <<"C", "O", "N", "J">>,
      <<"C", "o", "n", "j">>,
      <<"c", "o", "n", "j", ".">>,
      <<"C", "O", "N", "J", ".">>,
      <<"C", "o", "n", "j", ".">>,
      <<"p", "a", "r", "t">>,
      <<"P", "A", "R", "T">>,
      <<"P", "a", "r", "t">>,
      <<"p", "a", "r", "t", ".">>,
      <<"P", "A", "R", "T", ".">>,
      <<"P", "a", "r", "t", ".">>,
      <<"n", "u", "m">>,
      <<"N", "U", "M">>,
      <<"N", "u", "m">>,
      <<"n", "u", "m", ".">>,
      <<"N", "U", "M", ".">>,
      <<"N", "u", "m", ".">>,
      <<"m">>,
      <<"M">>,
      <<"m", ".">>,
      <<"M", ".">>,
      <<"m", "w">>,
      <<"M", "W">>,
      <<"M", "w">>,
      <<"m", "w", ".">>,
      <<"M", "W", ".">>,
      <<"M", "w", ".">>,
      <<"i", "n", "t", "e", "r", "j">>,
      <<"I", "N", "T", "E", "R", "J">>,
      <<"I", "n", "t", "e", "r", "j">>,
      <<"i", "n", "t", "e", "r", "j", ".">>,
      <<"I", "N", "T", "E", "R", "J", ".">>,
      <<"I", "n", "t", "e", "r", "j", ".">>,
      <<"v", "e", "r", "b">>,
      <<"n", "o", "u", "n">>,
      <<"p", "a", "r", "t", "i", "c", "l", "e">>,
      <<"n", "u", "m", "e", "r", "a", "l">>,
      <<"m", "e", "a", "s", "u", "r", "e", " ", "w", "o", "r", "d">>,
      <<>>,
      <<"o", "t", "h", "e", "r">>,
      <<"x", ".">>,
      <<" ", "v", ".", " ">>,
      <<"v", "v">>,
      <<"n", ".", ".">>,
      <<"a", "d", "j", "e", "c", "t", "i", "v", "e">>,
      <<"V", "e", "r", "b">>,
      <<".">> }

\* normalize_pos is called with a token
NormInit ==
    /\ SegIdle
    /\ OrchIdle
    /\ VocabIdle
    /\ AtomIdle
    /\ ParseIdle
    /\ ScanIdle
    /\ n_pos \in PosInputs
    /\ n_pc = "call"
    /\ n_category = "none"

\* normalize_pos(pos) returns
NormalizePos ==
    /\ n_pc = "call"
    /\ n_category' = normalize_pos(n_pos)
    /\ n_pc' = "returned"
    /\ UNCHANGED n_pos
    /\ UNCHANGED <<segVars, orchVars, dedupVars, parseVars, scanVars>>

NormNext == NormalizePos

NormSpec == NormInit /\ [][NormNext]_vars

----------------------------------------------------------------------------
(* extract_vocabulary.extract_vocab_from_chapter *)

\* a chapter file holds at most MaxLines lines
MaxLines == 3

\* the lines of a chapter file, as content.split('\n') yields them
ScanLines ==
    { <<"1", ".", " ", "@", " ", "n", "i", " ", "v", ".", " ", "y", "o", "u">>,
      <<"2", ".", " ", "@", " ", "|", " ", "n", "i", " ", "|", " ", "v", ".", " ", "|", " ", "y", "o", "u">>,
      <<"3", ".", " ", "@", " ", "n", "i", " ", "y", "o", "u">>,
      <<"1", ".", " ", "@">>,
      <<"1", ".", " ", "@", " ", "n", "i", "3", " ", "v", ".", " ", "y", "o", "u">>,
      <<"a", "b", "c">>,
      <<"#", " ", "1", ".", " ", "@", " ", "n", "i", " ", "v", ".", " ", "y", "o", "u">>,
      <<"|", " ", "1", ".", " ", "@", " ", "|", " ", "n", "i", " ", "|", " ", "v", ".", " ", "|", " ", "y", "o", "u">>,
      <<>>,
      <<" ", "1", ".", " ", "@", " ", "n", "i", " ", "v", ".", " ", "y", "o", "u">>,
      <<"1", ".", "@", " ", "n", "i", " ", "v", ".", "y", "o", "u">> }

\* not line.strip() or line.startswith('#') or line.startswith('|')
IsSkipped(line) ==
    \/ Strip(line) = <<>>
    \/ line[1] = "#"
    \/ line[1] = "|"

IsCandidateAlways(line) == TRUE

\* re.match(r'^\d+\.\s+\S', line)
IsCandidate(line) ==
    /\ OrdinalHead(line) # 0
    /\ SpacesEnd(line, OrdinalHead(line)) # 0
    /\ SpacesEnd(line, OrdinalHead(line)) <= Len(line)

\* the list vocab after one pass of the loop over the lines
VocabAfterLine(vocab, line, chapter_num) ==
    IF IsSkipped(line) THEN vocab
    ELSE IF IsCandidate(line) /\ parse_vocab_line(line) # NoEntry
      THEN Append(vocab, TagEntry(parse_vocab_line(line), chapter_num))
    ELSE vocab

\* extract_vocab_from_chapter has read the file and split it into lines
ScanInit ==
    /\ SegIdle
    /\ OrchIdle
    /\ VocabIdle
    /\ AtomIdle
    /\ ParseIdle
    /\ NormIdle
    /\ e_lines \in SeqsUpTo(ScanLines, MaxLines)
    /\ e_chapter_num \in DedupChapters
    /\ e_i = 1
    /\ e_vocab = <<>>
    /\ e_pc = "scan"

\* one pass of "for line in lines"
ScanLine ==
    /\ e_pc = "scan"
    /\ e_i <= Len(e_lines)
    /\ e_vocab' = VocabAfterLine(e_vocab, e_lines[e_i], e_chapter_num)
    /\ e_i' = e_i + 1
    /\ UNCHANGED <<e_lines, e_chapter_num, e_pc>>
    /\ UNCHANGED <<segVars, orchVars, dedupVars, parseVars, normVars>>

\* return vocab
ScanReturn ==
    /\ e_pc = "scan"
    /\ e_i > Len(e_lines)
    /\ e_pc' = "returned"
    /\ UNCHANGED <<e_lines, e_chapter_num, e_i, e_vocab>>
    /\ UNCHANGED <<segVars, orchVars, dedupVars, parseVars, normVars>>

ScanNext ==
    \/ ScanLine
    \/ ScanReturn

ScanSpec == ScanInit /\ [][ScanNext]_vars

----------------------------------------------------------------------------
(* Properties of the Segmenter *)

\* The valid lesson numbers [1, N]
ValidLessons == 1..15

BothReturned == s_done /\ c_done

\* The page carries a marker whose number is outside 1..15
OutOfRangeMarker(page_text) ==
    /\ extract_lesson_number(page_text) # None
    /\ extract_lesson_number(page_text) \notin ValidLessons

\* The page is appended to the accumulator unless empty after trimming
Appended(acc, page_text) ==
    IF Strip(page_text) = <<>> THEN acc ELSE acc \o <<Strip(page_text)>>

\* C1: the lesson map of either Segmenter has only keys in 1..15; 0 is never
\* a key.
C1_KeysInRange ==
    /\ DOMAIN s_chapters \subseteq ValidLessons
    /\ DOMAIN c_chapters \subseteq ValidLessons
    /\ 0 \notin DOMAIN s_chapters
    /\ 0 \notin DOMAIN c_chapters

\* C1 witness: both Segmenters returned a map with the key 15 for an input
\* that also carries a marker outside 1..15.
C1_Witness ==
    /\ BothReturned
    /\ 15 \in DOMAIN s_chapters
    /\ 15 \in DOMAIN c_chapters
    /\ \E i \in 1..Len(pages) : OutOfRangeMarker(pages[i])

\* C2: in both Segmenters a page whose marker number is outside 1..15 is no
\* lesson boundary: it changes neither the map nor current_lesson and is
\* appended to the accumulator like a page without a marker.
C2_OutOfRangeIsNoBoundary ==
    [][ /\ (s_i' = s_i + 1 /\ OutOfRangeMarker(pages[s_i]))
            => /\ s_current_lesson' = s_current_lesson
               /\ s_chapters' = s_chapters
               /\ s_current_content' = Appended(s_current_content, pages[s_i])
        /\ (c_i' = c_i + 1 /\ OutOfRangeMarker(pages[c_i]))
            => /\ c_current_lesson' = c_current_lesson
               /\ c_chapters' = c_chapters
               /\ c_current_content' = Appended(c_current_content, pages[c_i])
      ]_vars

\* The part of C2 that structure_into_chapters satisfies on its own.
C2_StructureOnly ==
    [][ (s_i' = s_i + 1 /\ OutOfRangeMarker(pages[s_i]))
            => /\ s_current_lesson' = s_current_lesson
               /\ s_chapters' = s_chapters
               /\ s_current_content' = Appended(s_current_content, pages[s_i])
      ]_vars

\* The transition the claim C3 describes for one page.
ClaimedPageStep(page_text, cur, acc, map, cur2, acc2, map2) ==
    LET L == extract_lesson_number(page_text)
    IN  IF L \in ValidLessons /\ L # cur
        THEN /\ map2 = IF cur > 0 /\ acc # <<>>
                       THEN DictSet(map, cur, Join(acc))
                       ELSE map
             /\ cur2 = L
             /\ acc2 = <<Strip(page_text)>>
        ELSE /\ map2 = map
             /\ cur2 = cur
             /\ acc2 = Appended(acc, page_text)

\* Scenario A: pages marked "01-1", no marker, "02-1".
ScenarioA ==
    << <<"0", "1", "-", "1", "a">>, <<"b">>, <<"0", "2", "-", "1">> >>

ScenarioAMap ==
    [L \in {1, 2} |->
        IF L = 1 THEN <<"0", "1", "-", "1", "a", "\n", "\n", "b">>
                 ELSE <<"0", "2", "-", "1">>]

\* C3: both Segmenters take the pages in input order, one per step; a page with
\* a valid lesson number other than current_lesson flushes and starts a new
\* accumulator, any other page is appended; scenario A gives Lesson 1 = pages
\* 1 and 2 joined and Lesson 2 = page 3.
C3_OrderedSegmentation ==
    [][ /\ s_i' # s_i =>
              /\ s_i' = s_i + 1
              /\ ClaimedPageStep(pages[s_i], s_current_lesson, s_current_content,
                                 s_chapters, s_current_lesson', s_current_content',
                                 s_chapters')
        /\ c_i' # c_i =>
              /\ c_i' = c_i + 1
              /\ ClaimedPageStep(pages[c_i], c_current_lesson, c_current_content,
                                 c_chapters, c_current_lesson', c_current_content',
                                 c_chapters')
        /\ (pages = ScenarioA /\ s_done') => s_chapters' = ScenarioAMap
        /\ (pages = ScenarioA /\ c_done') => c_chapters' = ScenarioAMap
      ]_vars

\* The part of C3 that structure_into_chapters satisfies on its own.
C3_StructureOnly ==
    [][ /\ s_i' # s_i =>
              /\ s_i' = s_i + 1
              /\ ClaimedPageStep(pages[s_i], s_current_lesson, s_current_content,
                                 s_chapters, s_current_lesson', s_current_content',
                                 s_chapters')
        /\ (pages = ScenarioA /\ s_done') => s_chapters' = ScenarioAMap
      ]_vars

\* No page of the input carries a valid marker
NoValidMarker ==
    \A i \in 1..Len(pages) : extract_lesson_number(pages[i]) \notin ValidLessons

\* C4: when no page carries a valid marker (none at all, or only numbers
\* outside 1..15) both Segmenters return the empty map.
C4_NoMarkerEmptyMap ==
    NoValidMarker => (DOMAIN s_chapters = {} /\ DOMAIN c_chapters = {})

\* C4 witness: both Segmenters returned for an input with non-empty pages, one
\* of them with an out-of-range marker, and no valid marker.
C4_Witness ==
    /\ BothReturned
    /\ NoValidMarker
    /\ Len(pages) >= 2
    /\ \E i \in 1..Len(pages) : OutOfRangeMarker(pages[i])
    /\ \E i \in 1..Len(pages) : extract_lesson_number(pages[i]) = None
                                    /\ Strip(pages[i]) # <<>>

\* C5: marker detection on the stored text of lesson L returns L, for every
\* key L of either lesson map.
C5_SelfConsistent ==
    /\ \A L \in DOMAIN s_chapters : extract_lesson_number(s_chapters[L]) = L
    /\ \A L \in DOMAIN c_chapters : extract_lesson_number(c_chapters[L]) = L

\* C5 witness: a returned lesson whose text is several pages joined and holds
\* a second marker with another number.
C5_Witness ==
    /\ BothReturned
    /\ \E L \in DOMAIN s_chapters \cap DOMAIN c_chapters :
          /\ s_chapters[L] = c_chapters[L]
          /\ MarkerSearchLast(s_chapters[L]) # MarkerSearchFirst(s_chapters[L])
          /\ GroupNumber(s_chapters[L], MarkerSearchLast(s_chapters[L])) # L

----------------------------------------------------------------------------
(* Properties of the Correction Orchestrator *)

Returned == pc \in {"returned", "combined"}

C7_RerunInvokesNothing ==
    (/\ Dispatched # {}
     /\ \A L \in Dispatched : L \in DOMAIN files /\ files[L] = OldText(L))
        => \A L \in Dispatched : invoked[L] = 0

\* C8: the corrector is invoked at most once per lesson, exactly once for
\* every lesson by the time the batch returns; a failed call is never run
\* again, and the step in which a call fails changes neither the work queue
\* nor the task of any other lesson.
C8_InvokedExactlyOnce ==
    [][ /\ \A L \in Dispatched :
              /\ invoked'[L] <= 1
              /\ task'[L] \notin {"new", "pending"} => invoked'[L] = 1
              /\ task[L] \in {"done_err", "collected_err"}
                    => /\ task'[L] \in {"done_err", "collected_err"}
                       /\ invoked'[L] = invoked[L]
        /\ Returned' => \A L \in Dispatched : invoked'[L] = 1
        /\ \A k \in Dispatched :
              (task[k] = "running" /\ task'[k] = "done_err")
                 => /\ queue' = queue
                    /\ \A L \in Dispatched \ {k} : task'[L] = task[L]
      ]_vars

\* C8 witness: a batch of three lessons on one worker returned with a failed
\* and a succeeded lesson.
C8_Witness ==
    /\ Returned
    /\ Len(chapters) = 3
    /\ max_workers = 1
    /\ failed # {}
    /\ DOMAIN results # {}
    /\ \A L \in Dispatched : invoked[L] = 1

\* C9: at most max_workers corrector calls are in flight; the other submitted
\* tasks wait in the queue, and a queued task can start whenever a slot is
\* free.
C9_BoundedParallelism ==
    /\ Cardinality(InFlight) <= max_workers
    /\ \A L \in Dispatched : task[L] = "pending" <=> \E k \in 1..Len(queue) : queue[k] = L
    /\ (queue # <<>> /\ Cardinality(InFlight) < max_workers) => ENABLED StartTask
    /\ (queue # <<>> /\ Cardinality(InFlight) >= max_workers) => ~ENABLED StartTask

\* C9 witness: every slot of a pool of two is busy while a task waits queued.
C9_Witness ==
    /\ max_workers = 2
    /\ Cardinality(InFlight) = 2
    /\ queue # <<>>

\* C10: no corrector call blocks the batch: until the combined document is
\* written some step of the batch is always possible, also when a call does
\* not return.
C10_TimedOutCallIsReleased ==
    pc = "combined" \/ ENABLED OrchNext

\* C11: with the credential missing no correction task is ever submitted and
\* no per-lesson failure is recorded.
C11_NoDispatchWithoutCredential ==
    ~credential =>
        /\ submitted = 0
        /\ queue = <<>>
        /\ failed = {}
        /\ \A L \in Dispatched : task[L] = "new"

\* C12: the step that handles a successfully completed task writes its
\* corrected text, the same text as its results entry, to the file of that
\* lesson and to no other file; the step that handles a failed task writes
\* nothing; files change in no other step, so every handled success is
\* persisted before the next completed task is handled.
C12_PersistedPerCompletion ==
    [][ /\ \A L \in Dispatched :
              /\ (task[L] = "done_ok" /\ task'[L] = "collected_ok")
                    => /\ DOMAIN files' = DOMAIN files \cup {L}
                       /\ files'[L] = CorrectedText(L)
                       /\ files'[L] = results'[L]
                       /\ \A M \in DOMAIN files \ {L} : files'[M] = files[M]
              /\ (task[L] = "done_err" /\ task'[L] = "collected_err")
                    => files' = files
              /\ task'[L] = "collected_ok"
                    => (L \in DOMAIN files' /\ files'[L] = CorrectedText(L))
        /\ files' # files
              => \E L \in Dispatched : task[L] = "done_ok" /\ task'[L] = "collected_ok"
      ]_vars

\* C12 witness: the lesson submitted second is persisted while the lesson
\* submitted first is not yet handled, and a failed lesson has no file.
C12_Witness ==
    /\ Len(chapters) = 3
    /\ task[chapters[1]] \in {"running", "done_ok"}
    /\ task[chapters[2]] = "collected_ok"
    /\ chapters[2] \in DOMAIN files
    /\ files[chapters[2]] = CorrectedText(chapters[2])
    /\ task[chapters[3]] = "collected_err"
    /\ chapters[3] \notin DOMAIN files

\* an item of the combined document that is the text of a chapter file
IsLessonText(item) == item[1] \in {"corrected", "earlier run"}

\* the chapter texts of the combined document, in document order
CombinedTexts == SelectSeq(combined, IsLessonText)

\* the lessons whose text the combined document holds
CombinedLessons == {CombinedTexts[k][2] : k \in 1..Len(CombinedTexts)}

\* C13: whatever the order in which the tasks completed, the combined
\* document lists exactly the persisted lesson texts, in ascending lesson
\* number, each preceded by the divider.
C13_CombinedInLessonOrder ==
    pc = "combined" =>
        /\ \A k \in 1..(Len(CombinedTexts) - 1) :
              CombinedTexts[k][2] < CombinedTexts[k + 1][2]
        /\ CombinedLessons = DOMAIN files
        /\ \A k \in 1..Len(CombinedTexts) : CombinedTexts[k] = files[CombinedTexts[k][2]]
        /\ \A k \in 1..Len(combined) :
              IsLessonText(combined[k]) => (k > 2 /\ combined[k - 2] = Divider)

\* C13 witness: the combined document of a batch whose lessons were
\* submitted out of lesson order, two of them persisted and one not.
C13_Witness ==
    /\ pc = "combined"
    /\ Len(chapters) = 3
    /\ chapters[1] > chapters[2]
    /\ Cardinality(DOMAIN files) = 2

\* C14: the combined document holds the content of the lessons that
\* succeeded in this run only, and no content for a failed lesson.
C14_FailedLessonOmitted ==
    pc = "combined" =>
        /\ CombinedLessons = {L \in Dispatched : task[L] = "collected_ok"}
        /\ CombinedLessons \cap failed = {}

\* The part of C14 that holds when no chapter file of an earlier run exists.
C14_WithoutEarlierFiles ==
    (pc = "combined" /\ \A L \in DOMAIN files : files[L] # OldText(L)) =>
        /\ CombinedLessons = {L \in Dispatched : task[L] = "collected_ok"}
        /\ CombinedLessons \cap failed = {}

\* C15: each chapter file is written at most once in a run, once exactly when
\* its lesson succeeded; every write is made by the loop of the main thread,
\* one file per step, so no two writes overlap.
C15_OneWritePerFile ==
    [][ /\ \A L \in Dispatched :
              /\ writes'[L] <= 1
              /\ writes'[L] # writes[L] => (pc = "collect" /\ task[L] = "done_ok")
              /\ Returned' => writes'[L] = IF task'[L] = "collected_ok" THEN 1 ELSE 0
        /\ Cardinality({L \in Dispatched : writes'[L] # writes[L]}) <= 1
      ]_vars

\* C15 witness: a batch on two workers returned with two files written.
C15_Witness ==
    /\ pc = "returned"
    /\ max_workers = 2
    /\ Cardinality({L \in Dispatched : writes[L] = 1}) >= 2

----------------------------------------------------------------------------
(* Properties of the de-duplication of extract_vocabulary and extract_atoms *)

\* the words of a list of records
WordsOf(s) == {s[k].word : k \in 1..Len(s)}

\* no two records of the list share a word
UniqueWords(s) == \A j, k \in 1..Len(s) : j # k => s[j].word # s[k].word

\* the first record of the list with the word w
FirstWith(s, w) ==
    s[CHOOSE k \in 1..Len(s) : s[k].word = w /\ \A j \in 1..(k - 1) : s[j].word # w]

\* the lists f[n] one after the other, n in the order of keys
RECURSIVE ConcatChapters(_, _)
ConcatChapters(keys, f) ==
    IF keys = <<>> THEN <<>>
    ELSE f[Head(keys)] \o ConcatChapters(Tail(keys), f)

\* the records of the chapter files in processing order: chapter, then line
VocabStream ==
    ConcatChapters(SortedSeq(DOMAIN chapter_files),
                   [i \in DOMAIN chapter_files |-> chapter_vocab(i)])

\* the atoms the tasks returned, in lesson-then-in-unit order
AtomStream == ConcatChapters(SortedSeq(a_chapters), a_returned)

\* the records of a stream whose word is neither in seen nor earlier in the stream
RECURSIVE DedupFold(_, _)
DedupFold(stream, seen) ==
    IF stream = <<>> THEN <<>>
    ELSE IF Head(stream).word \in seen THEN DedupFold(Tail(stream), seen)
    ELSE <<Head(stream)>> \o DedupFold(Tail(stream), seen \cup {Head(stream).word})

VocabReturned == v_pc \in {"returned", "saved"}

AtomsReturned == a_pc \in {"returned", "sorted", "saved"}

\* C16: no two accepted records share a word, in the list of
\* extract_all_chapters, in the list of the atom combiner and in the files
\* written from them; the accepted record of a word is the first record with
\* that word in processing order.
C16_WordUniqueness ==
    /\ UniqueWords(all_vocab)
    /\ UniqueWords(all_atoms)
    /\ UniqueWords(hsk1_vocabulary.vocab)
    /\ UniqueWords(hsk1_atoms.vocab)
    /\ VocabReturned =>
          /\ WordsOf(all_vocab) = WordsOf(VocabStream)
          /\ \A k \in 1..Len(all_vocab) :
                all_vocab[k] = FirstWith(VocabStream, all_vocab[k].word)
    /\ AtomsReturned =>
          /\ WordsOf(all_atoms) = WordsOf(AtomStream) \ existing_hsk_words
          /\ \A k \in 1..Len(all_atoms) :
                all_atoms[k] = FirstWith(AtomStream, all_atoms[k].word)

\* C16 witness: the atom combiner has returned after two atoms with the same
\* word and different fields, R1 before R2, went through it.
C16_Witness ==
    /\ a_pc = "returned"
    /\ existing_hsk_words = {}
    /\ \E j, k \in 1..Len(AtomStream) :
          /\ j < k
          /\ AtomStream[j].word = AtomStream[k].word
          /\ AtomStream[j].meaning # AtomStream[k].meaning
          /\ all_atoms[1] = AtomStream[j]

\* C17: the list of accepted records of extract_all_chapters only grows at
\* its end, so an accepted record is never changed or replaced; at the return
\* the record of a word is the one of the lowest-numbered chapter containing
\* the word and, in that chapter, of the earliest line; the file written is
\* that list.
C17_FirstOccurrenceFrozen ==
    [][ /\ Len(all_vocab') >= Len(all_vocab)
        /\ SubSeq(all_vocab', 1, Len(all_vocab)) = all_vocab
        /\ VocabReturned' =>
              \A k \in 1..Len(all_vocab') :
                 LET r == all_vocab'[k]
                     holders == {i \in DOMAIN chapter_files :
                                    r.word \in WordsOf(chapter_files[i])}
                     lowest == CHOOSE i \in holders : \A j \in holders : i <= j
                 IN  /\ holders # {}
                     /\ r.chapter = lowest
                     /\ r = FirstWith(chapter_vocab(lowest), r.word)
        /\ hsk1_vocabulary'.exists => hsk1_vocabulary'.vocab = all_vocab'
      ]_vars

\* C17 witness: the vocabulary is saved after a word occurred twice in
\* chapter 1, with different fields, and again in chapter 2.
C17_Witness ==
    /\ v_pc = "saved"
    /\ DOMAIN chapter_files = {1, 2}
    /\ Len(chapter_files[1]) = 2
    /\ chapter_files[1][1].word = chapter_files[1][2].word
    /\ chapter_files[1][1] # chapter_files[1][2]
    /\ \E k \in 1..Len(chapter_files[2]) :
          /\ chapter_files[2][k].word = chapter_files[1][1].word
          /\ chapter_files[2][k] # chapter_files[1][1]
    /\ Len(v_skipped) >= 2

\* C18: no accepted atom, in the list or in the file written, has a word of
\* the seed set; at the return every atom of a task whose word is in the seed
\* set has its own "Skipping duplicate" line.
C18_SeedWordsNeverAccepted ==
    /\ WordsOf(all_atoms) \cap existing_hsk_words = {}
    /\ WordsOf(hsk1_atoms.vocab) \cap existing_hsk_words = {}
    /\ AtomsReturned =>
          /\ \A n \in a_chapters : \A k \in 1..Len(a_returned[n]) :
                a_returned[n][k].word \in existing_hsk_words
                   => \E j \in 1..Len(a_skipped) :
                         a_skipped[j] = <<a_returned[n][k].word, n>>
          /\ Cardinality({j \in 1..Len(a_skipped) : a_skipped[j][1] \in existing_hsk_words})
                = Cardinality({k \in 1..Len(AtomStream) :
                                  AtomStream[k].word \in existing_hsk_words})

\* C18 witness: scenario D, the seed holds "wu", a task proposed an atom with
\* the word "wu" and an atom with another word was accepted.
C18_Witness ==
    /\ a_pc = "saved"
    /\ existing_hsk_words = {"wu"}
    /\ \E k \in 1..Len(AtomStream) : AtomStream[k].word = "wu"
    /\ hsk1_atoms.vocab # <<>>

\* C19: seen_words of process_all_chapters changes only in the combining
\* loop, when every task is collected and none is in flight; each change adds
\* the word of the next atom in lesson-then-in-unit order; the list returned
\* is the fold of the returned atoms in that order, whatever the order in
\* which the tasks completed.
C19_SingleWriterInLessonOrder ==
    [][ /\ a_seen_words \subseteq a_seen_words'
        /\ AtomsInFlight # {} => a_seen_words' = a_seen_words
        /\ a_seen_words' # a_seen_words =>
              /\ a_pc = "combine"
              /\ \A n \in a_chapters : a_task[n] = "collected"
              /\ a_ci <= Len(SortedSeq(a_chapters))
              /\ LET atoms == a_returned[SortedSeq(a_chapters)[a_ci]]
                 IN  /\ a_k <= Len(atoms)
                     /\ a_seen_words' = a_seen_words \cup {atoms[a_k].word}
                     /\ all_atoms' = Append(all_atoms, atoms[a_k])
        /\ a_ci' > a_ci \/ (a_ci' = a_ci /\ a_k' >= a_k)
        /\ (a_pc = "combine" /\ a_pc' = "returned")
              => all_atoms' = DedupFold(AtomStream, existing_hsk_words)
      ]_vars

\* C19 witness: the combiner has returned after chapter 2 completed before
\* chapter 1, the two chapters proposing the same word with different fields.
C19_Witness ==
    /\ a_pc = "returned"
    /\ Len(chapter_results) = 2
    /\ chapter_results[1].num > chapter_results[2].num
    /\ \E j \in 1..Len(chapter_results[1].atoms), k \in 1..Len(chapter_results[2].atoms) :
          /\ chapter_results[1].atoms[j].word = chapter_results[2].atoms[k].word
          /\ chapter_results[1].atoms[j].meaning # chapter_results[2].atoms[k].meaning
          /\ chapter_results[1].atoms[j].word \notin existing_hsk_words

----------------------------------------------------------------------------
(* Properties of parse_vocab_line *)

\* C20: a line that matches both the pipe-separated form and the tagged form
\* is returned as the record of the pipe-separated form; in general the value
\* returned is the record of the first form that matches, in the order
\* pipe-separated, tagged, untagged, and None when none matches.
C20_DelimitedBeforeTagged ==
    p_pc = "returned" =>
        /\ (DelimitedRecord(p_line) # NoEntry /\ TaggedRecord(p_line) # NoEntry)
              => p_entry = DelimitedRecord(p_line)
        /\ DelimitedRecord(p_line) # NoEntry => p_entry = DelimitedRecord(p_line)
        /\ (DelimitedRecord(p_line) = NoEntry /\ TaggedRecord(p_line) # NoEntry)
              => p_entry = TaggedRecord(p_line)
        /\ (DelimitedRecord(p_line) = NoEntry /\ TaggedRecord(p_line) = NoEntry)
              => p_entry = UntaggedRecord(p_line)

\* C20 witness: parse_vocab_line has returned for a line that matches both
\* forms, with different records.
C20_Witness ==
    /\ p_pc = "returned"
    /\ DelimitedRecord(p_line) # NoEntry
    /\ TaggedRecord(p_line) # NoEntry
    /\ DelimitedRecord(p_line) # TaggedRecord(p_line)
    /\ p_entry = DelimitedRecord(p_line)

\* the closed table of the abbreviations and their canonical categories
AbbreviationTable ==
    { << <<"p", "r", "o", "n">>, "pronoun" >>,
      << <<"a", "d", "j">>, "adjective" >>,
      << <<"v">>, "verb" >>,
      << <<"n">>, "noun" >>,
      << <<"a", "d", "v">>, "adverb" >>,
      << <<"p", "r", "e", "p">>, "preposition" >>,
      << <<"c", "o", "n", "j">>, "conjunction" >>,
      << <<"p", "a", "r", "t">>, "particle" >>,
      << <<"n", "u", "m">>, "numeral" >>,
      << <<"m">>, "measure_word" >>,
      << <<"m", "w">>, "measure_word" >>,
      << <<"i", "n", "t", "e", "r", "j">>, "interjection" >> }

\* a token in lower case and without its trailing period
TokenBase(a) ==
    IF a # <<>> /\ a[Len(a)] = "." THEN LowerText(SubSeq(a, 1, Len(a) - 1))
    ELSE LowerText(a)

\* the token is an abbreviation of the table, with or without period, in any case
IsAbbreviation(a) == \E e \in AbbreviationTable : e[1] = TokenBase(a)

\* the canonical category of a token: that of its abbreviation, else "other"
CanonicalCategory(a) ==
    IF IsAbbreviation(a)
    THEN (CHOOSE e \in AbbreviationTable : e[1] = TokenBase(a))[2]
    ELSE "other"

HasPeriod(a) == a # <<>> /\ a[Len(a)] = "."

\* the record with the given fields
Record(wd, p, category, m) ==
    [word |-> wd, pinyin |-> p, part_of_speech |-> category, meaning |-> m]

\* the line "N. W | P | A | M"
FourColumnLine(o, wd, p, a, m) ==
    o \o Space \o wd \o Bar \o p \o Bar \o a \o Bar \o m

\* the line "N. W | P | M"
ThreeColumnLine(o, wd, p, m) == o \o Space \o wd \o Bar \o p \o Bar \o m

\* the line "N. W P A M"
TaggedLine(o, wd, p, a, m) ==
    o \o Space \o wd \o Space \o p \o Space \o a \o Space \o m

\* the line "N. W P M"
UntaggedLine(o, wd, p, m) == o \o Space \o wd \o Space \o p \o Space \o m

\* C21: a line of four columns "N. W | P | A | M", A an abbreviation of the
\* table, is returned as the record with word W, pronunciation P, the
\* canonical category of A and meaning M.
C21_FourColumns ==
    p_pc = "returned" =>
        \A o \in Ordinals, wd \in WordTexts, p \in PinyinTexts, m \in MeaningTexts :
            \A a \in {t \in PosTexts : IsAbbreviation(t)} :
                p_line = FourColumnLine(o, wd, p, a, m)
                    => p_entry = Record(wd, p, CanonicalCategory(a), m)

\* The part of C21 that holds: the abbreviation is written with its period.
C21_WithPeriod ==
    p_pc = "returned" =>
        \A o \in Ordinals, wd \in WordTexts, p \in PinyinTexts, m \in MeaningTexts :
            \A a \in {t \in PosTexts : IsAbbreviation(t) /\ HasPeriod(t)} :
                p_line = FourColumnLine(o, wd, p, a, m)
                    => p_entry = Record(wd, p, CanonicalCategory(a), m)

----------------------------------------------------------------------------
(* Properties of normalize_pos *)

\* C22: normalize_pos maps every abbreviation of the closed table, with or
\* without its trailing period and in any letter case, to its canonical
\* category, and every other input to "other".
C22_ClosedTable ==
    n_pc = "returned" => n_category = CanonicalCategory(Strip(n_pos))

\* The part of C22 that holds: an abbreviation written with its period, in any
\* letter case, is mapped to its canonical category.
C22_WithPeriod ==
    n_pc = "returned" /\ IsAbbreviation(Strip(n_pos)) /\ HasPeriod(Strip(n_pos))
        => n_category = CanonicalCategory(Strip(n_pos))

----------------------------------------------------------------------------
(* Properties of the space-separated forms of parse_vocab_line *)

\* the first token of a text: its characters before the first white space
FirstToken(m) ==
    LET spaces == {i \in 1..Len(m) : m[i] \in Whitespace}
    IN  IF spaces = {} THEN m
        ELSE SubSeq(m, 1, (CHOOSE i \in spaces : \A j \in spaces : i <= j) - 1)

\* the remainder begins with a part-of-speech abbreviation token
BeginsWithAbbreviation(m) == IsAbbreviation(FirstToken(m))

\* C23: a line of ordinal, word, pronunciation and a remainder that does not
\* begin with a part-of-speech abbreviation token parses to part_of_speech
\* "other" with the entire remainder as meaning.
C23_UntaggedWholeRemainder ==
    p_pc = "returned" =>
        \A o \in Ordinals, wd \in WordTexts, p \in PinyinTexts :
            \A m \in {t \in MeaningTexts : ~BeginsWithAbbreviation(t)} :
                p_line = UntaggedLine(o, wd, p, m)
                    => p_entry = Record(wd, p, "other", m)

\* The part of C23 that holds: the remainder begins with a character that is
\* no letter.
C23_RemainderNotLetter ==
    p_pc = "returned" =>
        \A o \in Ordinals, wd \in WordTexts, p \in PinyinTexts :
            \A m \in {t \in MeaningTexts : t[1] \notin PinyinChars} :
                p_line = UntaggedLine(o, wd, p, m)
                    => p_entry = Record(wd, p, "other", m)

----------------------------------------------------------------------------
(* Order of the written lists *)

\* consecutive records are in the order (lesson number, word)
OrderedByLessonAndWord(vocab) ==
    \A k \in 1..(Len(vocab) - 1) :
        \/ vocab[k].chapter < vocab[k + 1].chapter
        \/ /\ vocab[k].chapter = vocab[k + 1].chapter
           /\ WordRank[vocab[k].word] <= WordRank[vocab[k + 1].word]

\* C24: the written list is ordered by lesson number ascending, then word
\* ascending, in the standard vocabulary output and in the atom output.
C24_WrittenListsOrdered ==
    /\ hsk1_vocabulary.exists => OrderedByLessonAndWord(hsk1_vocabulary.vocab)
    /\ hsk1_atoms.exists => OrderedByLessonAndWord(hsk1_atoms.vocab)

\* The part of C24 that holds: the atom output is ordered.
C24_AtomOutputOrdered ==
    hsk1_atoms.exists => OrderedByLessonAndWord(hsk1_atoms.vocab)

----------------------------------------------------------------------------
(* Properties of extract_vocab_from_chapter *)

\* the line starts with an ordinal marker: digits followed by a period
StartsWithOrdinal(line) == OrdinalHead(line) # 0

\* the line fits none of the three forms
FitsNoForm(line) ==
    /\ DelimitedRecord(line) = NoEntry
    /\ TaggedRecord(line) = NoEntry
    /\ UntaggedRecord(line) = NoEntry

\* C25: a line that does not start with an ordinal marker yields no record, a
\* candidate line that fits none of the three forms yields no record, a record
\* comes only from a candidate line, and after every line the scan goes on
\* with the next line.
C25_OnlyCandidatesYieldRecords ==
    [][ e_pc = "scan" /\ e_i <= Len(e_lines) =>
          LET line == e_lines[e_i]
          IN  /\ e_pc' = "scan"
              /\ e_i' = e_i + 1
              /\ ~StartsWithOrdinal(line) => e_vocab' = e_vocab
              /\ FitsNoForm(line) => e_vocab' = e_vocab
              /\ e_vocab' # e_vocab =>
                    /\ StartsWithOrdinal(line)
                    /\ e_vocab' = Append(e_vocab,
                                         TagEntry(parse_vocab_line(line), e_chapter_num))
      ]_vars

\* a line without ordinal marker and a candidate line that fits no form are
\* passed over, and the line after them has given its record
C25_Witness ==
    /\ e_pc = "returned"
    /\ Len(e_lines) = 3
    /\ ~StartsWithOrdinal(e_lines[1])
    /\ parse_vocab_line(e_lines[1]) # NoEntry
    /\ IsCandidate(e_lines[2])
    /\ FitsNoForm(e_lines[2])
    /\ e_vocab = <<TagEntry(parse_vocab_line(e_lines[3]), e_chapter_num)>>

----------------------------------------------------------------------------
(* Runs of lessons in the page sequence *)

\* the lesson number of a page with a valid marker (1 to MaxLesson), else None
ValidLesson(page) ==
    LET n == extract_lesson_number(page)
    IN  IF n # None /\ n >= 1 /\ n <= MaxLesson THEN n ELSE None

\* the lesson of the last valid marker among the first i pages, 0 if none
RECURSIVE LessonAt(_, _)
LessonAt(ps, i) ==
    IF i = 0 THEN 0
    ELSE IF ValidLesson(ps[i]) # None THEN ValidLesson(ps[i])
    ELSE LessonAt(ps, i - 1)

\* the pages at which a run begins: a valid marker of another lesson
RunStarts(ps) ==
    {i \in 1..Len(ps) : ValidLesson(ps[i]) # None
                        /\ ValidLesson(ps[i]) # LessonAt(ps, i - 1)}

\* the runs of lesson L, each as the pair of its first and last page
RunsOf(ps, L) ==
    { <<a, b>> \in (1..Len(ps)) \X (1..Len(ps)) :
        /\ a \in RunStarts(ps)
        /\ ValidLesson(ps[a]) = L
        /\ a <= b
        /\ \A i \in (a + 1)..b : i \notin RunStarts(ps)
        /\ b = Len(ps) \/ (b + 1) \in RunStarts(ps) }

LastRunOf(ps, L) ==
    CHOOSE r \in RunsOf(ps, L) : \A q \in RunsOf(ps, L) : q[1] <= r[1]

\* the stripped pages with index in S, from page i on, in page order
RECURSIVE StrippedPages(_, _, _)
StrippedPages(ps, S, i) ==
    IF i > Len(ps) THEN <<>>
    ELSE IF i \in S THEN <<Strip(ps[i])>> \o StrippedPages(ps, S, i + 1)
    ELSE StrippedPages(ps, S, i + 1)

\* the text is joined from pages of the run r only
OnlyPagesOfRun(text, ps, r) ==
    \E S \in SUBSET (r[1]..r[2]) : S # {} /\ text = Join(StrippedPages(ps, S, 1))

\* every entry of the returned map holds only pages of the last run of its lesson
EntriesFromLastRun(dict, ps) ==
    \A L \in DOMAIN dict :
        /\ RunsOf(ps, L) # {}
        /\ OnlyPagesOfRun(dict[L], ps, LastRunOf(ps, L))

\* C26: a change of the current lesson starts a fresh accumulator that holds
\* the page of the marker only, and in the returned map the entry of a lesson
\* holds only pages of the last run of that lesson: the pages of an earlier
\* run are replaced, never merged with the later run. Both Segmenters.
C26_OverwriteOnFlush ==
    [][ /\ s_current_lesson' # s_current_lesson
            => s_current_content' = <<Strip(pages[s_i])>>
        /\ c_current_lesson' # c_current_lesson
            => c_current_content' = <<Strip(pages[c_i])>>
        /\ s_done' => EntriesFromLastRun(s_chapters', pages)
        /\ c_done' => EntriesFromLastRun(c_chapters', pages)
      ]_vars

\* lesson L, then another lesson, then L again: both maps hold for L the third
\* page alone, which differs from the first
C26_Witness ==
    /\ s_done
    /\ c_done
    /\ Len(pages) = 3
    /\ RunStarts(pages) = {1, 2, 3}
    /\ ValidLesson(pages[1]) = ValidLesson(pages[3])
    /\ Strip(pages[1]) # Strip(pages[3])
    /\ s_chapters[ValidLesson(pages[3])] = Strip(pages[3])
    /\ c_chapters[ValidLesson(pages[3])] = Strip(pages[3])

----------------------------------------------------------------------------
(* Properties of the tagged and of the three-column form *)

\* C27: a line "N. W P A M" whose token A is an entry of the closed
\* abbreviation table, written with its period, gives the record with word W,
\* pronunciation P, the canonical category of the whole token A, and the text
\* M after the token as meaning.
C27_TaggedWholeToken ==
    p_pc = "returned" =>
        \A o \in Ordinals, wd \in WordTexts, p \in PinyinTexts, m \in MeaningTexts :
            \A a \in {t \in PosTexts : IsAbbreviation(t) /\ HasPeriod(t)} :
                p_line = TaggedLine(o, wd, p, a, m)
                    => p_entry = Record(wd, p, CanonicalCategory(a), m)

\* the abbreviations that begin with a shorter alternative of the pattern
LongerAbbreviations == { <<"n", "u", "m", ".">>, <<"m", "w", ".">> }

\* The part of C27 that holds: every abbreviation with its period other than
\* "num." and "mw.".
C27_ShorterTokens ==
    p_pc = "returned" =>
        \A o \in Ordinals, wd \in WordTexts, p \in PinyinTexts, m \in MeaningTexts :
            \A a \in {t \in PosTexts : IsAbbreviation(t) /\ HasPeriod(t)
                                       /\ LowerText(t) \notin LongerAbbreviations} :
                p_line = TaggedLine(o, wd, p, a, m)
                    => p_entry = Record(wd, p, CanonicalCategory(a), m)

\* the columns of a line
Columns(line) == Split(line, "|")

\* the word column holds nothing after the ordinal marker
EmptyWordColumn(line) ==
    LET first == Strip(Columns(line)[1])
    IN  OrdinalHead(first) # 0 /\ OrdinalHead(first) > Len(first)

\* the line has fewer than three columns, or an empty word or pronunciation
\* column
OutsideDelimitedForm(line) ==
    \/ Len(Columns(line)) < 3
    \/ EmptyWordColumn(line)
    \/ Strip(Columns(line)[2]) = <<>>

\* what the space-separated forms make of a line
SpaceSeparatedRecord(line) ==
    IF TaggedRecord(line) # NoEntry THEN TaggedRecord(line) ELSE UntaggedRecord(line)

\* C28: a line "N. W | P | M" of exactly three columns gives the record with
\* word W, pronunciation P, part_of_speech "other" and meaning M; a line with
\* fewer than three columns, or with an empty word or pronunciation column, is
\* not accepted by the pipe-separated form: what is returned for it is what
\* the space-separated forms make of it.
C28_ThreeColumns ==
    p_pc = "returned" =>
        /\ \A o \in Ordinals, wd \in WordTexts, p \in PinyinTexts, m \in MeaningTexts :
              p_line = ThreeColumnLine(o, wd, p, m)
                  => p_entry = Record(wd, p, "other", m)
        /\ OutsideDelimitedForm(p_line) =>
              /\ DelimitedRecord(p_line) = NoEntry
              /\ p_entry = SpaceSeparatedRecord(p_line)

\* a line of three columns has been parsed
C28_Witness ==
    /\ p_pc = "returned"
    /\ Len(Columns(p_line)) = 3
    /\ \E o \in Ordinals, wd \in WordTexts, p \in PinyinTexts, m \in MeaningTexts :
          /\ p_line = ThreeColumnLine(o, wd, p, m)
          /\ p_entry = Record(wd, p, "other", m)

----------------------------------------------------------------------------
(* The two Segmenters compared *)

\* C29: structure_into_chapters and extract_chapters_from_ocr are equivalent:
\* after the same number of pages they have the same current_lesson, the same
\* accumulator and the same map, and they return the same map.
C29_SegmentersEquivalent ==
    /\ s_i = c_i =>
          /\ s_current_lesson = c_current_lesson
          /\ s_current_content = c_current_content
          /\ s_done = c_done => s_chapters = c_chapters
    /\ s_done /\ c_done => s_chapters = c_chapters

\* no page carries the marker number 0
NoLessonZero ==
    \A i \in 1..Len(pages) : extract_lesson_number(pages[i]) # 0

\* The part of C29 that holds: the page sequences without a marker 00-N.
C29_WithoutLessonZero ==
    NoLessonZero =>
        /\ s_i = c_i =>
              /\ s_current_lesson = c_current_lesson
              /\ s_current_content = c_current_content
              /\ s_done = c_done => s_chapters = c_chapters
        /\ s_done /\ c_done => s_chapters = c_chapters

----------------------------------------------------------------------------
(* No page is lost *)

\* the lessons with a valid marker in the page sequence
LessonsOf(ps) ==
    {ValidLesson(ps[i]) : i \in RunStarts(ps)}

\* every lesson number occurs in a single contiguous run
SingleRuns(ps) ==
    \A L \in LessonsOf(ps) : Cardinality(RunsOf(ps, L)) = 1

\* the pages of a run that are not empty after trimming, joined
RunText(ps, r) ==
    Join(StrippedPages(ps, {i \in r[1]..r[2] : Strip(ps[i]) # <<>>}, 1))

\* the map in which every page from the first valid marker on, if not empty
\* after trimming, lies in the lesson of its run, and no other page in any
RunMap(ps) ==
    [L \in LessonsOf(ps) |-> RunText(ps, LastRunOf(ps, L))]

\* C30: when every lesson number occurs in a single contiguous run, the map
\* returned by either Segmenter holds every page from the first valid marker
\* on that is not empty after trimming in exactly one lesson, the lesson of
\* its run, and holds no page before the first valid marker.
C30_NoPageLost ==
    SingleRuns(pages) =>
        /\ s_done => s_chapters = RunMap(pages)
        /\ c_done => c_chapters = RunMap(pages)

\* The part of C30 that structure_into_chapters satisfies on its own.
C30_StructureOnly ==
    SingleRuns(pages) /\ s_done => s_chapters = RunMap(pages)

----------------------------------------------------------------------------
(* The first marker of a page decides *)

\* the number of the first marker of the page is outside 1..15, and a later
\* marker of the page carries a valid lesson number other than cur
LaterValidMarkerOnly(page_text, cur) ==
    LET first == MarkerSearchFirst(page_text)
    IN  /\ first # 0
        /\ GroupNumber(page_text, first) \notin ValidLessons
        /\ \E i \in (first + 1)..Len(page_text) :
              /\ MarkerAt(page_text, i)
              /\ GroupNumber(page_text, i) \in ValidLessons
              /\ GroupNumber(page_text, i) # cur

\* C31: in both Segmenters a page whose first marker is out of range is a
\* continuation page, also when a valid marker of another lesson occurs later
\* in the page: the step changes neither current_lesson nor the map and
\* appends the page to the accumulator.
C31_FirstMarkerDecides ==
    [][ /\ (s_i' = s_i + 1 /\ LaterValidMarkerOnly(pages[s_i], s_current_lesson))
            => /\ s_current_lesson' = s_current_lesson
               /\ s_chapters' = s_chapters
               /\ s_current_content' = Appended(s_current_content, pages[s_i])
        /\ (c_i' = c_i + 1 /\ LaterValidMarkerOnly(pages[c_i], c_current_lesson))
            => /\ c_current_lesson' = c_current_lesson
               /\ c_chapters' = c_chapters
               /\ c_current_content' = Appended(c_current_content, pages[c_i])
      ]_vars

\* The part of C31 that holds: in both Segmenters the later marker never
\* starts its lesson, and structure_into_chapters treats the page as a
\* continuation page.
C31_LaterMarkerNeverStarts ==
    [][ /\ (s_i' = s_i + 1 /\ LaterValidMarkerOnly(pages[s_i], s_current_lesson))
            => /\ s_current_lesson' = s_current_lesson
               /\ s_chapters' = s_chapters
               /\ s_current_content' = Appended(s_current_content, pages[s_i])
        /\ (c_i' = c_i + 1 /\ LaterValidMarkerOnly(pages[c_i], c_current_lesson))
            => c_current_lesson' \notin ValidLessons \ {c_current_lesson}
      ]_vars

----------------------------------------------------------------------------
(* Failures in atom extraction *)

\* the atoms a call for chapter num returns when it does not fail
TaggedReply(num) == [k \in 1..Len(replies[num]) |-> TagAtom(replies[num][k], num)]

\* chapter_results has one entry for every chapter of chapters, holding what
\* the task of that chapter ended with, and every task has completed
ResultTableComplete ==
    /\ Len(chapter_results) = Cardinality(a_chapters)
    /\ {chapter_results[k].num : k \in 1..Len(chapter_results)} = a_chapters
    /\ \A k \in 1..Len(chapter_results) :
          chapter_results[k].atoms = a_returned[chapter_results[k].num]
    /\ \A n \in a_chapters : a_task[n] = "collected"

\* C32: a call for one chapter ends with the atoms of its reply or, when it
\* fails, with the empty list, and leaves the tasks of the other chapters as
\* they are; when process_all_chapters reaches the combining step,
\* chapter_results has an entry for every dispatched chapter and every task
\* has completed.
C32_FailureIsolated ==
    [][ /\ \A num \in a_chapters :
              a_task[num] = "running" /\ a_task'[num] = "done" =>
                  /\ a_returned'[num] \in {<<>>, TaggedReply(num)}
                  /\ \A n \in a_chapters \ {num} :
                        a_task'[n] = a_task[n] /\ a_returned'[n] = a_returned[n]
        /\ a_pc' = "combine" => ResultTableComplete'
      ]_vars

\* the combining step is reached with two chapters: the call of one failed
\* (its reply held atoms, its entry is empty), the other gave its atoms
C32_Witness ==
    /\ a_pc = "combine"
    /\ Len(chapter_results) = 2
    /\ \E j, k \in 1..2 :
          /\ replies[chapter_results[j].num] # <<>>
          /\ chapter_results[j].atoms = <<>>
          /\ chapter_results[k].atoms # <<>>
          /\ chapter_results[k].atoms = TaggedReply(chapter_results[k].num)

----------------------------------------------------------------------------
(* The combined document comes after the batch *)

\* every dispatched task has completed and was handled by the loop
BatchOver ==
    /\ \A L \in Dispatched : task[L] \in {"collected_ok", "collected_err"}
    /\ InFlight = {}
    /\ queue = <<>>

\* C33: when process_all_chapters_parallel has returned and
\* combine_all_chapters starts, every dispatched task has completed, succeeded
\* or failed, and no corrector call is in flight; from then on no task
\* changes and no per-lesson file is written.
C33_CombineAfterBatch ==
    [][ /\ pc' \in {"returned", "combined"} => BatchOver'
        /\ pc \in {"returned", "combined"} =>
              /\ task' = task
              /\ files' = files
              /\ writes' = writes
      ]_vars

\* the combined document is written after a batch of a lesson that succeeded
\* and a lesson that failed
C33_Witness ==
    /\ pc = "combined"
    /\ combined # <<>>
    /\ \E L, M \in Dispatched :
          /\ task[L] = "collected_ok"
          /\ writes[L] = 1
          /\ task[M] = "collected_err"
          /\ M \in failed

====
